---- MODULE Spec2Model ----
(***************************************************************************)
(* The retrieval-orchestration agent of PaperWhisperer                     *)
(* (app/services/agent_service.py): AgentOrchestrator.chat_stream, the     *)
(* session store it commits to, and the parsing of the classification and  *)
(* evaluation responses.                                                   *)
(*                                                                         *)
(* chat_stream is an async generator.  It is parked either at a `yield`    *)
(* (the event has been handed to the consumer, which resumes it by asking  *)
(* for the next event) or at an `await` of an external capability.  One    *)
(* action of the model is the code between two such suspension points, so  *)
(* other exchanges and store operations interleave exactly where asyncio   *)
(* lets them.                                                              *)
(***************************************************************************)
EXTENDS Integers, Sequences, FiniteSets, TLC

----------------------------------------------------------------------------
(* Bounds of the model                                                     *)

\* largest configured value of settings.agent_max_retrieval_rounds explored
MaxRoundsBound == 2
\* longest synthesis stream (number of increments) explored
MaxChunks == 2
\* number of turns already committed to the pre-existing session
PriorTurns == 10
\* number of session ids create_session can hand out
MaxSessions == 2

----------------------------------------------------------------------------
(* Program constants                                                       *)

\* agent_service.py:501-502  len(session.messages) > 20 / [-20:]
HistoryLimit == 20
\* agent_service.py:394  search_keywords[:3]
KeywordCap == 3
\* agent_service.py:491  all_results[:5]
SourcesCap == 5

NOT_FOUND_ANSWER == "not-found"

Exchanges == {1, 2}
Papers == {"p1", "p2"}
Questions == {"why"}
\* a question of 62 characters, for question[:50]
LongQuestion == "which optimizer and learning rate schedule do the authors use?"
FallbackKeywordLength == 50
NoSession == 0
SessionIds == 1..MaxSessions

----------------------------------------------------------------------------
(* Sequence helpers                                                        *)

Min(a, b) == IF a < b THEN a ELSE b

\* Python s[:n]
Take(s, n) == SubSeq(s, 1, Min(n, Len(s)))

\* Python s[-n:]
Last(s, n) == IF Len(s) <= n THEN s ELSE SubSeq(s, Len(s) - n + 1, Len(s))

IsPrefix(s, t) == Len(s) <= Len(t) /\ SubSeq(t, 1, Len(s)) = s

RECURSIVE JoinWithSpaces(_)
\* " ".join(chunks)
JoinWithSpaces(chunks) ==
    IF chunks = << >> THEN ""
    ELSE IF Len(chunks) = 1 THEN Head(chunks)
    ELSE Head(chunks) \o " " \o JoinWithSpaces(Tail(chunks))

RECURSIVE Join(_)
\* "".join(chunks)
Join(chunks) ==
    IF chunks = << >> THEN "" ELSE Head(chunks) \o Join(Tail(chunks))

Positions(s, P(_)) == {i \in 1..Len(s) : P(s[i])}

----------------------------------------------------------------------------
(* Session store                                                           *)

ChatMessage(role, content) == [role |-> role, content |-> content]

\* a trim that keeps the oldest messages instead of the newest
trim_keeps_oldest(messages) == Take(messages, HistoryLimit)

\* a trim that keeps one message less than the limit
trim_one_short(messages) ==
    IF Len(messages) > HistoryLimit THEN Last(messages, HistoryLimit - 1)
    ELSE messages

\* agent_service.py:500-502
trim_history(messages) ==
    IF Len(messages) > HistoryLimit THEN Last(messages, HistoryLimit)
    ELSE messages

\* a commit that stores the turn twice
commit_twice(messages, question, answer) ==
    trim_history(messages \o <<ChatMessage("user", question),
                               ChatMessage("assistant", answer),
                               ChatMessage("user", question),
                               ChatMessage("assistant", answer)>>)

\* agent_service.py:495-502: append the turn, then limit the length
commit(messages, question, answer) ==
    trim_history(Append(Append(messages, ChatMessage("user", question)),
                        ChatMessage("assistant", answer)))

Digit == <<"0", "1", "2", "3", "4", "5", "6", "7", "8", "9">>
Num(i) == Digit[(i \div 10) + 1] \o Digit[(i % 10) + 1]

RECURSIVE History(_)
\* the history a session holds after k earlier exchanges ended with done
History(k) ==
    IF k = 0 THEN << >>
    ELSE commit(History(k - 1), "q" \o Num(k), "a" \o Num(k))

----------------------------------------------------------------------------
(* Retrieved fragments and their deduplication                             *)

\* a search result; chunk_id "" stands for a missing or empty chunk id
\* a search result: its id, its score, the section title of its metadata
\* and its text
Passage(chunk_id, score, section, text) ==
    [chunk_id |-> chunk_id, score |-> score, section |-> section,
     text |-> text]

Fragment(chunk_id, score) ==
    Passage(chunk_id, score,
            IF chunk_id = "" THEN "" ELSE "Section " \o chunk_id,
            "text of " \o chunk_id)

ChunkIds(results) == {results[i].chunk_id : i \in 1..Len(results)}

RECURSIVE dedup_from(_, _)
dedup_from(all_results, seen_chunks) ==
    IF all_results = << >> THEN << >>
    ELSE LET result == Head(all_results)
             chunk_id == result.chunk_id
         IN IF chunk_id /= "" /\ chunk_id \notin seen_chunks
            THEN <<result>> \o dedup_from(Tail(all_results),
                                          seen_chunks \cup {chunk_id})
            ELSE dedup_from(Tail(all_results), seen_chunks)

RECURSIVE InsertByScore(_, _)
InsertByScore(result, sorted) ==
    IF sorted = << >> THEN <<result>>
    ELSE IF result.score > Head(sorted).score THEN <<result>> \o sorted
    ELSE <<Head(sorted)>> \o InsertByScore(result, Tail(sorted))

RECURSIVE SortByScore(_)
\* list.sort(key=score, reverse=True)
SortByScore(results) ==
    IF results = << >> THEN << >>
    ELSE InsertByScore(results[Len(results)],
                       SortByScore(SubSeq(results, 1, Len(results) - 1)))

RECURSIVE keep_without_id(_, _)
keep_without_id(all_results, seen_chunks) ==
    IF all_results = << >> THEN << >>
    ELSE LET result == Head(all_results)
             chunk_id == result.chunk_id
         IN IF chunk_id \notin seen_chunks
            THEN <<result>> \o keep_without_id(
                                  Tail(all_results),
                                  IF chunk_id = "" THEN seen_chunks
                                  ELSE seen_chunks \cup {chunk_id})
            ELSE keep_without_id(Tail(all_results), seen_chunks)

\* a deduplication that only drops fragments without a chunk id
dedup_ignores_seen(all_results) ==
    SelectSeq(all_results, LAMBDA result : result.chunk_id /= "")

\* a deduplication that ranks by score, as search_multi_keywords does
dedup_then_sort(all_results) == SortByScore(dedup_from(all_results, {}))

\* a deduplication that keeps every fragment without a chunk id
dedup_keeps_without_id(all_results) == keep_without_id(all_results, {})

\* agent_service.py:303-312
deduplicate_results(all_results) == dedup_from(all_results, {})

NoDuplicateIds(results) ==
    \A i, j \in 1..Len(results) :
        results[i].chunk_id = results[j].chunk_id => i = j

----------------------------------------------------------------------------
(* Responses of the text-generation capability and their parsing           *)

IntentCategories ==
    {"contribution", "method", "experiment", "comparison", "motivation",
     "implementation", "general"}

\* What llm_factory.chat(stream=False) can give back to a caller:
\*   kind "raise"      the call fails (capability error)
\*   kind "not_json"   text on which json.loads raises JSONDecodeError
\*   kind "json_other" valid JSON that is not an object (list, number, ...)
\*   kind "object"     a JSON object; its fields are described below
\* A field that is absent has kind "missing", a field of another JSON type
\* than the schema wants has kind "invalid".
IntentResponse(kind, category_kind, category, keywords_kind, keywords) ==
    [kind |-> kind, category_kind |-> category_kind, category |-> category,
     sections_kind |-> "missing", target_sections |-> << >>,
     keywords_kind |-> keywords_kind, keywords |-> keywords]

EvalResponse(kind, sufficient_kind, is_sufficient, keywords_kind, keywords) ==
    [kind |-> kind, sufficient_kind |-> sufficient_kind,
     is_sufficient |-> is_sufficient,
     keywords_kind |-> keywords_kind, suggested_keywords |-> keywords]

IntentAnalysisResult(category, target_sections, keywords) ==
    [category |-> category, target_sections |-> target_sections,
     keywords |-> keywords]

CompletenessEvaluation(is_sufficient, suggested_keywords) ==
    [bound |-> TRUE, is_sufficient |-> is_sufficient,
     suggested_keywords |-> suggested_keywords]

\* the local evaluation_result before its first assignment
Unbound ==
    [bound |-> FALSE, is_sufficient |-> FALSE, suggested_keywords |-> << >>]

Returned(value) == [raised |-> FALSE, value |-> value]
Raised(value) == [raised |-> TRUE, value |-> value]

\* dict.get(field, default) followed by the pydantic List[str] validation
ListField(kind, value) == IF kind = "missing" THEN << >> ELSE value

UpperCase == "ABCDEFGHIJKLMNOPQRSTUVWXYZ"
LowerCase == "abcdefghijklmnopqrstuvwxyz"

LowerChar(c) ==
    IF \E i \in 1..Len(UpperCase) : SubSeq(UpperCase, i, i) = c
    THEN LET i == CHOOSE i \in 1..Len(UpperCase) : SubSeq(UpperCase, i, i) = c
         IN SubSeq(LowerCase, i, i)
    ELSE c

RECURSIVE lower(_)
\* str.lower on ASCII text
lower(s) ==
    IF s = "" THEN ""
    ELSE LowerChar(SubSeq(s, 1, 1)) \o lower(SubSeq(s, 2, Len(s)))

\* the default of a result that was not produced
NoIntent == IntentAnalysisResult("general", << >>, << >>)

\* a conversion that lets the ValueError of an unknown category escape
parse_intent_strict(response) ==
    IF \/ response.category_kind = "invalid"
       \/ response.sections_kind = "invalid"
       \/ response.keywords_kind = "invalid"
    THEN Raised(NoIntent)
    ELSE LET category_str ==
                lower(IF response.category_kind = "missing"
                      THEN "general" ELSE response.category)
         IN IF category_str \notin IntentCategories
            THEN Raised(NoIntent)
            ELSE Returned(IntentAnalysisResult(
                     category_str,
                     ListField(response.sections_kind,
                               response.target_sections),
                     ListField(response.keywords_kind, response.keywords)))

\* agent_service.py:128-141: the parsed object becomes the result; a field
\* of the wrong type raises (AttributeError on .lower(), pydantic
\* ValidationError on the lists)
parse_intent(response) ==
    IF \/ response.category_kind = "invalid"
       \/ response.sections_kind = "invalid"
       \/ response.keywords_kind = "invalid"
    THEN Raised(NoIntent)
    ELSE LET category_str ==
                lower(IF response.category_kind = "missing"
                      THEN "general" ELSE response.category)
             category ==
                IF category_str \in IntentCategories
                THEN category_str ELSE "general"
         IN Returned(IntentAnalysisResult(
                category,
                ListField(response.sections_kind, response.target_sections),
                ListField(response.keywords_kind, response.keywords)))

\* a fallback that searches for the whole question
analyze_whole_question(question, response) ==
    CASE response.kind = "raise" -> Raised(NoIntent)
      [] response.kind = "not_json" ->
           Returned(IntentAnalysisResult("general", << >>, <<question>>))
      [] response.kind = "json_other" -> Raised(NoIntent)
      [] OTHER -> parse_intent(response)

\* agent_service.py:110-153, from the response of the call on: the call
\* fails (153), json.loads fails (143-150), parsed.get fails on JSON that
\* is not an object (129, 151-153), or the object is converted
analyze(question, response) ==
    CASE response.kind = "raise" -> Raised(NoIntent)
      [] response.kind = "not_json" ->
           Returned(IntentAnalysisResult("general", << >>,
                                         <<Take(question,
                                                FallbackKeywordLength)>>))
      [] response.kind = "json_other" -> Raised(NoIntent)
      [] OTHER -> parse_intent(response)

\* agent_service.py:231-236: a field of the wrong type raises (pydantic
\* ValidationError)
parse_evaluation(response) ==
    IF \/ response.sufficient_kind = "invalid"
       \/ response.keywords_kind = "invalid"
    THEN Raised(Unbound)
    ELSE Returned(CompletenessEvaluation(
             IF response.sufficient_kind = "missing" THEN TRUE
             ELSE response.is_sufficient,
             ListField(response.keywords_kind, response.suggested_keywords)))

\* a fallback that asks for another round
evaluate_insufficient_on_failure(response) ==
    CASE response.kind = "raise" -> Raised(Unbound)
      [] response.kind = "not_json" ->
           Returned(CompletenessEvaluation(FALSE, << >>))
      [] response.kind = "json_other" -> Raised(Unbound)
      [] OTHER -> parse_evaluation(response)

\* agent_service.py:213-249, from the response of the call on
evaluate(response) ==
    CASE response.kind = "raise" -> Raised(Unbound)
      [] response.kind = "not_json" ->
           Returned(CompletenessEvaluation(TRUE, << >>))
      [] response.kind = "json_other" -> Raised(Unbound)
      [] OTHER -> parse_evaluation(response)

----------------------------------------------------------------------------
(* State                                                                   *)

VARIABLES
    max_retrieval_rounds,  \* AgentOrchestrator.max_retrieval_rounds
    sessions,              \* keys of AgentOrchestrator.sessions
    heap,                  \* the ChatHistory objects ever created, by id
    next_id,               \* the next id uuid4 hands out (ids are never reused)
    pc,                    \* where each chat_stream generator is parked
    fr,                    \* the locals of each chat_stream generator
    events,                \* the events each generator has yielded so far
    calls,                 \* the capability calls each generator has started
    taken,                 \* how many events the consumer of each generator
                           \* has taken
    mk,                    \* the locals of a call of search_multi_keywords
    tp,                    \* the locals and tasks of a call of translate_paper
    poll                   \* the locals of a call of wait_for_completion

vars ==
    <<max_retrieval_rounds, sessions, heap, next_id, pc, fr, events, calls,
      taken, mk, tp, poll>>

\* search_multi_keywords is not running
NoSearch ==
    [pc |-> "off", keywords |-> << >>, k |-> 0, all_results |-> << >>,
     seen_chunks |-> {}, searched |-> << >>, value |-> << >>]

\* translate_paper is not running
NoTranslation == [pc |-> "off"]

\* wait_for_completion is not running
NoPolling == [pc |-> "off"]

\* the calls outside the agent are not running
OthersOff == mk = NoSearch /\ tp = NoTranslation /\ poll = NoPolling

ChatHistory(paper_id, messages) == [paper_id |-> paper_id, messages |-> messages]

NoObject == ChatHistory("none", << >>)

Histories == [s \in SessionIds |-> heap[s].messages]

\* AgentStreamEvent; round, text, n and sources describe the payload
AgentStreamEvent(type, round, text, n, sources) ==
    [type |-> type, round |-> round, text |-> text, n |-> n,
     sources |-> sources]

Call(capability, round, arg) ==
    [capability |-> capability, round |-> round, arg |-> arg]

\* no response received yet
NoResponse == [kind |-> "none"]

InitialFrame ==
    [paper_id |-> "p1", question |-> "why", session_id |-> NoSession,
     session |-> NoSession,
     section_titles |-> << >>,
     intent_result |-> IntentAnalysisResult("general", << >>, << >>),
     all_results |-> << >>, current_round |-> 0, is_sufficient |-> FALSE,
     search_keywords |-> << >>, keyword |-> 0,
     evaluation_result |-> Unbound,
     \* the rendering of all_results (420, 452) and the part of it in the
     \* evaluator's prompt (205)
     context |-> "", retrieved_content |-> "",
     response_chunks |-> << >>, answer |-> "",
     \* history variables: the histories when the exchange started and the
     \* accumulated list at the end of each round
     histories_at_start |-> [s \in SessionIds |-> << >>],
     round_end |-> << >>,
     \* history variables: the session_id argument as it was passed, how
     \* each capability call ended (outcomes[k] belongs to calls[e][k]), and
     \* the last response given to analyze and to evaluate
     requested |-> NoSession, outcomes |-> << >>,
     intent_response |-> NoResponse, evaluation_response |-> NoResponse]

\* One session bound to paper p1 exists; it has served `turns` earlier
\* exchanges.
InitStore(turns) ==
    /\ max_retrieval_rounds \in 0..MaxRoundsBound
    /\ sessions = {1}
    /\ \E k \in turns :
          heap = [s \in SessionIds |->
                     IF s = 1 THEN ChatHistory("p1", History(k)) ELSE NoObject]
    /\ next_id = 2
    /\ fr = [e \in Exchanges |-> InitialFrame]
    /\ events = [e \in Exchanges |-> << >>]
    /\ calls = [e \in Exchanges |-> << >>]
    /\ taken = [e \in Exchanges |-> 0]

\* a single request
Init ==
    /\ InitStore({0, PriorTurns})
    /\ pc = [e \in Exchanges |-> IF e = 1 THEN "start" ELSE "off"]
    /\ OthersOff

\* two requests, served concurrently
InitConcurrent ==
    /\ InitStore({PriorTurns})
    /\ max_retrieval_rounds = 1
    /\ pc = [e \in Exchanges |-> "start"]
    /\ OthersOff

----------------------------------------------------------------------------
(* Steps of chat_stream                                                    *)

TerminalTypes == {"done", "error"}

\* the generator moves to `target` with locals f, having yielded `emitted`
\* and started `called`
\* the generator is parked at a yield, its last event waiting to be taken
YieldStates ==
    {"y_thinking_intent", "y_thinking_result", "y_retrieval_start",
     "y_retrieval_count", "y_evaluation_none", "y_thinking_evaluate",
     "y_evaluation", "y_content_fixed", "y_content", "y_sources", "y_done",
     "y_error"}

\* the generator is parked at an await, a capability call in flight
AwaitStates ==
    {"a_titles", "a_intent", "a_search", "a_evaluation", "a_synthesis",
     "a_chunk"}

\* a producer that goes on without its event having been taken
StepRunsAhead(e, target, f, emitted, called) ==
    /\ pc' = [pc EXCEPT ![e] = target]
    /\ fr' = [fr EXCEPT ![e] = f]
    /\ events' = [events EXCEPT ![e] = @ \o emitted]
    /\ calls' = [calls EXCEPT ![e] = @ \o called]
    /\ UNCHANGED taken

\* a generator parked at a yield runs on only when the consumer asks for the
\* next event (chat.py:170), having taken the one yielded
Step(e, target, f, emitted, called) ==
    /\ pc' = [pc EXCEPT ![e] = target]
    /\ fr' = [fr EXCEPT ![e] = f]
    /\ events' = [events EXCEPT ![e] = @ \o emitted]
    /\ calls' = [calls EXCEPT ![e] = @ \o called]
    /\ taken' = [taken EXCEPT ![e] = IF pc[e] \in YieldStates
                                     THEN Len(events[e]) ELSE @]

\* sessions that share one list of messages
SetMessagesShared(session, messages) ==
    heap' = [s \in SessionIds |-> [heap[s] EXCEPT !.messages = messages]]

SetMessages(session, messages) ==
    heap' = [heap EXCEPT ![session].messages = messages]

\* an except clause that records the question of the failed turn
on_exception_records_question(messages, question, response_chunks) ==
    Append(messages, ChatMessage("user", question))

\* agent_service.py:506-508: what the except clause leaves in the history
on_exception(messages, question, response_chunks) == messages

\* a handler that reports the failure and then reports it again
ThrowTwice(e, f) ==
    /\ Step(e, "y_error", f,
            <<AgentStreamEvent("error", f.current_round, "exception", 0, << >>),
              AgentStreamEvent("error", f.current_round, "exception", 0, << >>)>>,
            << >>)
    /\ UNCHANGED heap

\* agent_service.py:506-508
Throw(e, f) ==
    /\ Step(e, "y_error", f,
            <<AgentStreamEvent("error", f.current_round, "exception", 0, << >>)>>,
            << >>)
    /\ SetMessages(f.session,
                   on_exception(heap[f.session].messages, f.question,
                                f.response_chunks))

\* a loop test that allows one round too many
loop_off_by_one(current_round, max_rounds, is_sufficient) ==
    current_round <= max_rounds /\ ~is_sufficient

\* a loop test that only counts rounds
loop_ignores_verdict(current_round, max_rounds, is_sufficient) ==
    current_round < max_rounds

\* a loop test without the cap on the rounds
loop_ignores_cap(current_round, max_rounds, is_sufficient) == ~is_sufficient

\* agent_service.py:378
loop_continues(current_round, max_rounds, is_sufficient) ==
    current_round < max_rounds /\ ~is_sufficient

\* agent_service.py:205: the characters of the rendering the evaluator reads
ContentBudget == 4000

\* "{score:.3f}"; a score of the model counts tenths
format_score(score) == "0." \o Digit[score + 1] \o "00"

\* agent_service.py:296-300: the part of the i-th result; FR, SE and REL
\* stand for the source's labels of two, two and three characters
context_part(i, r) ==
    "[FR " \o ToString(i) \o "] (SE: " \o r.section \o ", REL: "
        \o format_score(r.score) \o ")\n" \o r.text \o "\n"

RECURSIVE join_parts(_, _)
\* agent_service.py:301: "\n---\n\n".join(parts), parts numbered from i
join_parts(results, i) ==
    IF results = << >> THEN ""
    ELSE IF Len(results) = 1 THEN context_part(i, Head(results))
    ELSE context_part(i, Head(results)) \o "\n---\n\n"
             \o join_parts(Tail(results), i + 1)

\* agent_service.py:293-301
format_context(results) == join_parts(results, 1)

\* the longest prefix of the results whose rendering fits the budget
fitting(results) ==
    LET fits == {k \in 0..Len(results) :
                    Len(format_context(Take(results, k))) <= ContentBudget}
    IN Take(results, CHOOSE k \in fits : \A j \in fits : j <= k)

\* an evaluation that cuts the accumulated list itself to what fits
start_evaluation_cutting_results(f) ==
    [f EXCEPT !.all_results = fitting(@),
              !.context = format_context(fitting(f.all_results)),
              !.retrieved_content = format_context(fitting(f.all_results))]

\* agent_service.py:420-425 and 203-206: all_results is rendered and the
\* evaluator puts the first ContentBudget characters in its prompt
start_evaluation(f) ==
    LET context == format_context(f.all_results)
    IN [f EXCEPT !.context = context,
                 !.retrieved_content = Take(context, ContentBudget)]

PreviewLength == 100

\* agent_service.py:486-491: the entry of the sources payload for result r
source_entry(r) ==
    [chunk_id |-> r.chunk_id, section |-> r.section, score |-> r.score,
     text_preview |-> Take(r.text, PreviewLength) \o "..."]

\* a payload that lists the five best-scored fragments
source_entries_by_score(all_results) ==
    LET listed == Take(SortByScore(all_results), SourcesCap)
    IN [i \in 1..Len(listed) |-> source_entry(listed[i])]

\* agent_service.py:486-491: one entry for each of all_results[:5]
source_entries(all_results) ==
    LET listed == Take(all_results, SourcesCap)
    IN [i \in 1..Len(listed) |-> source_entry(listed[i])]

\* a sources step that has already stored the turn
YieldSourcesCommitted(e, f) ==
    /\ Step(e, "y_sources", f,
            <<AgentStreamEvent("sources", f.current_round, "", 0,
                               source_entries(f.all_results))>>,
            << >>)
    /\ SetMessages(f.session,
                   commit(heap[f.session].messages, f.question, f.answer))

\* agent_service.py:483-492
YieldSources(e, f) ==
    /\ Step(e, "y_sources", f,
            <<AgentStreamEvent("sources", f.current_round, "", 0,
                               source_entries(f.all_results))>>,
            << >>)
    /\ UNCHANGED heap

\* a synthesis step that lists the sources before the fixed answer
SynthesizeSourcesFirst(e, f) ==
    IF f.all_results = << >>
    THEN /\ Step(e, "y_content_fixed", [f EXCEPT !.answer = NOT_FOUND_ANSWER],
                 <<AgentStreamEvent("sources", f.current_round, "", 0, << >>),
                   AgentStreamEvent("content", f.current_round,
                                    NOT_FOUND_ANSWER, 0, << >>)>>,
                 << >>)
         /\ UNCHANGED heap
    ELSE /\ Step(e, "a_synthesis",
                 [f EXCEPT !.context = format_context(f.all_results)], << >>,
                 <<Call("synthesis", f.current_round, f.question)>>)
         /\ UNCHANGED heap

\* a synthesis step without the empty-evidence shortcut
SynthesizeAlwaysCalls(e, f) ==
    /\ Step(e, "a_synthesis",
                 [f EXCEPT !.context = format_context(f.all_results)], << >>,
            <<Call("synthesis", f.current_round, f.question)>>)
    /\ UNCHANGED heap

\* agent_service.py:446-475
Synthesize(e, f) ==
    IF f.all_results = << >>
    THEN /\ Step(e, "y_content_fixed", [f EXCEPT !.answer = NOT_FOUND_ANSWER],
                 <<AgentStreamEvent("content", f.current_round,
                                    NOT_FOUND_ANSWER, 0, << >>)>>,
                 << >>)
         /\ UNCHANGED heap
    ELSE /\ Step(e, "a_synthesis",
                 [f EXCEPT !.context = format_context(f.all_results)], << >>,
                 <<Call("synthesis", f.current_round, f.question)>>)
         /\ UNCHANGED heap

\* a choice of keywords that searches the intent's keywords in every round
round_keywords_from_intent(round, intent_result, evaluation_result, question) ==
    intent_result.keywords

\* agent_service.py:381-386
round_keywords(round, intent_result, evaluation_result, question) ==
    IF round = 1 THEN intent_result.keywords
    ELSE IF evaluation_result.suggested_keywords /= << >>
         THEN evaluation_result.suggested_keywords
         ELSE <<question>>

\* agent_service.py:378-391
LoopTest(e, f) ==
    IF loop_continues(f.current_round, max_retrieval_rounds, f.is_sufficient)
    THEN LET round == f.current_round + 1
         IN IF round > 1 /\ ~f.evaluation_result.bound
            THEN Throw(e, [f EXCEPT !.current_round = round])
            ELSE LET search_keywords ==
                        round_keywords(round, f.intent_result,
                                       f.evaluation_result, f.question)
                 IN \* rounds past the largest max_retrieval_rounds are
                    \* not explored
                    /\ round <= MaxRoundsBound
                    /\ Step(e, "y_retrieval_start",
                            [f EXCEPT !.current_round = round,
                                      !.search_keywords = search_keywords,
                                      !.keyword = 0],
                            <<AgentStreamEvent("retrieval", round, "start",
                                               Len(search_keywords), << >>)>>,
                            << >>)
                    /\ UNCHANGED heap
    ELSE Synthesize(e, f)

\* agent_service.py:402-408
FinishRetrieval(e, f) ==
    LET all_results == deduplicate_results(f.all_results)
    IN /\ Step(e, "y_retrieval_count",
               [f EXCEPT !.all_results = all_results,
                         !.round_end = Append(@, all_results)],
               <<AgentStreamEvent("retrieval", f.current_round, "count",
                                  Len(all_results), << >>)>>,
               << >>)
       /\ UNCHANGED heap

\* a round that goes on to the evaluation after its first search
NextSearchFirstOnly(e, f) ==
    LET keywords == Take(f.search_keywords, 1)
    IN IF f.keyword < Len(keywords)
       THEN /\ Step(e, "a_search", [f EXCEPT !.keyword = @ + 1], << >>,
                    <<Call("search", f.current_round, keywords[f.keyword + 1])>>)
            /\ UNCHANGED heap
       ELSE FinishRetrieval(e, f)

\* a round that searches every keyword it was given
NextSearchUncapped(e, f) ==
    LET keywords == f.search_keywords
    IN IF f.keyword < Len(keywords)
       THEN /\ Step(e, "a_search", [f EXCEPT !.keyword = @ + 1], << >>,
                    <<Call("search", f.current_round, keywords[f.keyword + 1])>>)
            /\ UNCHANGED heap
       ELSE FinishRetrieval(e, f)

\* agent_service.py:394-399: the next keyword of search_keywords[:3], if any
NextSearch(e, f) ==
    LET keywords == Take(f.search_keywords, KeywordCap)
    IN IF f.keyword < Len(keywords)
       THEN /\ Step(e, "a_search", [f EXCEPT !.keyword = @ + 1], << >>,
                    <<Call("search", f.current_round, keywords[f.keyword + 1])>>)
            /\ UNCHANGED heap
       ELSE FinishRetrieval(e, f)

----------------------------------------------------------------------------
(* Actions: one per suspension point of chat_stream.  `env` holds the sets *)
(* the answers of the external capabilities are drawn from.                *)

Frame ==
    UNCHANGED <<max_retrieval_rounds, sessions, next_id, mk, tp, poll>>

\* a test that accepts any stored session, whatever paper it is bound to
session_valid_any_paper(session, objects, paper_id) == session /= NoSession

\* agent_service.py:350: `not session or session.paper_id != paper_id`,
\* negated
session_valid(session, objects, paper_id) ==
    session /= NoSession /\ objects[session].paper_id = paper_id

\* the locals after the awaited call ended with `outcome`
Ended(f, outcome) == [f EXCEPT !.outcomes = Append(@, outcome)]

\* a start that, given no session id, takes a session of the store instead
\* of creating one
BeginReusesSession(e, env) ==
    /\ pc[e] = "start"
    /\ \E paper_id \in env.papers, question \in env.questions,
          requested \in env.session_ids :
          LET session_id == IF requested = NoSession
                            THEN CHOOSE s \in sessions : TRUE
                            ELSE requested
              session == IF session_id \in sessions THEN session_id
                         ELSE NoSession
              valid == session_valid(session, heap, paper_id)
              f == [fr[e] EXCEPT !.paper_id = paper_id,
                                 !.requested = requested,
                                 !.question = question,
                                 !.session_id = session_id,
                                 !.session = session,
                                 !.histories_at_start = Histories]
          IN /\ UNCHANGED <<sessions, heap, next_id>>
             /\ IF valid
                THEN Step(e, "y_thinking_intent", f,
                          <<AgentStreamEvent("thinking", 0, "intent", 0, << >>)>>,
                          << >>)
                ELSE Step(e, "y_error", f,
                          <<AgentStreamEvent("error", 0, "invalid", 0, << >>)>>,
                          << >>)
    /\ UNCHANGED <<max_retrieval_rounds, mk, tp, poll>>

\* agent_service.py:345-356 with create_session (277-287) and get_session
Begin(e, env) ==
    /\ pc[e] = "start"
    /\ \E paper_id \in env.papers, question \in env.questions,
          requested \in env.session_ids :
          LET creating == requested = NoSession
              session_id == IF creating THEN next_id ELSE requested
              store == IF creating THEN sessions \cup {session_id} ELSE sessions
              objects == IF creating
                         THEN [heap EXCEPT
                                 ![session_id] = ChatHistory(paper_id, << >>)]
                         ELSE heap
              session == IF session_id \in store THEN session_id ELSE NoSession
              valid == session_valid(session, objects, paper_id)
              f == [fr[e] EXCEPT !.paper_id = paper_id,
                                 !.requested = requested,
                                 !.question = question,
                                 !.session_id = session_id,
                                 !.session = session,
                                 !.histories_at_start = Histories]
          IN /\ creating => next_id <= MaxSessions
             /\ sessions' = store
             /\ heap' = objects
             /\ next_id' = IF creating THEN next_id + 1 ELSE next_id
             /\ IF valid
                THEN Step(e, "y_thinking_intent", f,
                          <<AgentStreamEvent("thinking", 0, "intent", 0, << >>)>>,
                          << >>)
                ELSE Step(e, "y_error", f,
                          <<AgentStreamEvent("error", 0, "invalid", 0, << >>)>>,
                          << >>)
    /\ UNCHANGED <<max_retrieval_rounds, mk, tp, poll>>

\* agent_service.py:359 and 316-318: the metadata lookup is started
LoadTitles(e) ==
    /\ pc[e] = "y_thinking_intent"
    /\ Step(e, "a_titles", fr[e], << >>, <<Call("titles", 0, fr[e].paper_id)>>)
    /\ UNCHANGED heap
    /\ Frame

\* a metadata lookup whose failure ends the exchange
ClassifyNeedsTitles(e, env) ==
    /\ pc[e] = "a_titles"
    /\ \E titles \in env.titles :
          IF titles.raised
          THEN Throw(e, Ended(fr[e], "raise"))
          ELSE /\ Step(e, "a_intent",
                       [Ended(fr[e], "returned")
                           EXCEPT !.section_titles = titles.value],
                       << >>, <<Call("classification", 0, fr[e].question)>>)
               /\ UNCHANGED heap
    /\ Frame

\* agent_service.py:319-324 and 361-366, 87-117: the titles (none when the
\* lookup fails), then the classification call is started
Classify(e, env) ==
    /\ pc[e] = "a_titles"
    /\ \E titles \in env.titles :
          Step(e, "a_intent",
               [Ended(fr[e], IF titles.raised THEN "raise" ELSE "returned")
                   EXCEPT !.section_titles =
                              IF titles.raised THEN << >> ELSE titles.value],
               << >>, <<Call("classification", 0, fr[e].question)>>)
    /\ UNCHANGED heap
    /\ Frame

\* agent_service.py:119-153 and 368-391
IntentDone(e, env) ==
    /\ pc[e] = "a_intent"
    /\ \E response \in env.intents :
          LET r == analyze(fr[e].question, response)
              f == [Ended(fr[e], response.kind)
                       EXCEPT !.intent_response = response]
          IN IF r.raised
             THEN Throw(e, f)
             ELSE /\ Step(e, "y_thinking_result",
                          [f EXCEPT !.intent_result = r.value],
                          <<AgentStreamEvent("thinking", 0, "result", 0, << >>)>>,
                          << >>)
                  /\ UNCHANGED heap
    /\ Frame

\* agent_service.py:373-391 (or 446-475 when max_retrieval_rounds is 0)
EnterLoop(e) ==
    /\ pc[e] = "y_thinking_result"
    /\ LoopTest(e, fr[e])
    /\ Frame

\* agent_service.py:393-408, resumed after the round's first retrieval event
StartSearches(e) ==
    /\ pc[e] = "y_retrieval_start"
    /\ NextSearch(e, fr[e])
    /\ Frame

\* a search whose failure is taken for an empty result
SearchDoneSwallowsFailure(e, env) ==
    /\ pc[e] = "a_search"
    /\ \E outcome \in env.searches :
          IF outcome.raised
          THEN NextSearch(e, Ended(fr[e], "raise"))
          ELSE NextSearch(e, [Ended(fr[e], "returned")
                                 EXCEPT !.all_results = @ \o outcome.value])
    /\ Frame

\* what search_similar_chunks can give back for query_text: any answer of
\* the environment, or the answer of the environment's index when it fixes
\* one
search_similar_chunks(env, query_text) ==
    IF "index" \in DOMAIN env THEN {Returned(env.index[query_text])}
    ELSE env.searches

\* agent_service.py:395-408, one similarity search returns or fails
SearchDone(e, env) ==
    /\ pc[e] = "a_search"
    /\ \E outcome \in search_similar_chunks(
                           env, fr[e].search_keywords[fr[e].keyword]) :
          IF outcome.raised
          THEN Throw(e, Ended(fr[e], "raise"))
          ELSE NextSearch(e, [Ended(fr[e], "returned")
                                 EXCEPT !.all_results = @ \o outcome.value])
    /\ Frame

\* an empty round that leaves the loop without an evaluation event
AfterRetrievalSilent(e) ==
    /\ pc[e] = "y_retrieval_count"
    /\ IF fr[e].all_results = << >>
       THEN Step(e, "y_evaluation_none", fr[e], << >>, << >>)
       ELSE Step(e, "y_thinking_evaluate", fr[e],
                 <<AgentStreamEvent("thinking", fr[e].current_round, "evaluate",
                                    0, << >>)>>,
                 << >>)
    /\ UNCHANGED heap
    /\ Frame

\* agent_service.py:410-418
AfterRetrieval(e) ==
    /\ pc[e] = "y_retrieval_count"
    /\ IF fr[e].all_results = << >>
       THEN Step(e, "y_evaluation_none", fr[e],
                 <<AgentStreamEvent("evaluation", fr[e].current_round, "none",
                                    0, << >>)>>,
                 << >>)
       ELSE Step(e, "y_thinking_evaluate", fr[e],
                 <<AgentStreamEvent("thinking", fr[e].current_round, "evaluate",
                                    0, << >>)>>,
                 << >>)
    /\ UNCHANGED heap
    /\ Frame

\* an empty round that goes on with the loop instead of leaving it
BreakLoopContinues(e) ==
    /\ pc[e] = "y_evaluation_none"
    /\ LoopTest(e, fr[e])
    /\ Frame

\* agent_service.py:415 (break) and 446-475
BreakLoop(e) ==
    /\ pc[e] = "y_evaluation_none"
    /\ Synthesize(e, fr[e])
    /\ Frame

\* agent_service.py:420-425 and 203-220: the evaluation call is started
Evaluate(e) ==
    /\ pc[e] = "y_thinking_evaluate"
    /\ Step(e, "a_evaluation", start_evaluation(fr[e]), << >>,
            <<Call("evaluation", fr[e].current_round, fr[e].question)>>)
    /\ UNCHANGED heap
    /\ Frame

\* agent_service.py:222-249 and 427-444
EvaluationDone(e, env) ==
    /\ pc[e] = "a_evaluation"
    /\ \E response \in env.evaluations :
          LET r == evaluate(response)
              f == [Ended(fr[e], response.kind)
                       EXCEPT !.evaluation_response = response]
              verdict == IF r.value.is_sufficient THEN "sufficient"
                         ELSE IF fr[e].current_round < max_retrieval_rounds
                              THEN "insufficient" ELSE "max_rounds"
          IN IF r.raised
             THEN Throw(e, f)
             ELSE /\ Step(e, "y_evaluation",
                          [f EXCEPT !.evaluation_result = r.value,
                                        !.is_sufficient = r.value.is_sufficient],
                          <<AgentStreamEvent("evaluation", fr[e].current_round,
                                             verdict, 0, << >>)>>,
                          << >>)
                  /\ UNCHANGED heap
    /\ Frame

\* agent_service.py:378-391 or 446-475, resumed after the evaluation event
NextRound(e) ==
    /\ pc[e] = "y_evaluation"
    /\ LoopTest(e, fr[e])
    /\ Frame

\* a fixed answer that is reported as done without being stored
FixedAnswerNotCommitted(e) ==
    /\ pc[e] = "y_content_fixed"
    /\ Step(e, "y_done", fr[e],
            <<AgentStreamEvent("sources", fr[e].current_round, "", 0, << >>),
              AgentStreamEvent("done", fr[e].current_round, "", 0, << >>)>>,
            << >>)
    /\ UNCHANGED heap
    /\ Frame

\* agent_service.py:449 resumed, then 483-492
FixedAnswerDone(e) ==
    /\ pc[e] = "y_content_fixed"
    /\ YieldSources(e, fr[e])
    /\ Frame

\* agent_service.py:470-477: the streaming call returns its stream or fails
StreamOpened(e, env) ==
    /\ pc[e] = "a_synthesis"
    /\ \E outcome \in env.streams :
          IF outcome.raised
          THEN Throw(e, Ended(fr[e], "raise"))
          ELSE /\ Step(e, "a_chunk", fr[e], << >>, << >>)
               /\ UNCHANGED heap
    /\ Frame

\* agent_service.py:477-492: the stream gives an increment, ends, or fails
ChunkDone(e, env) ==
    /\ pc[e] = "a_chunk"
    /\ \/ \E chunk \in env.chunks :
             /\ Len(fr[e].response_chunks) < MaxChunks
             /\ Step(e, "y_content",
                     [fr[e] EXCEPT !.response_chunks = Append(@, chunk)],
                     <<AgentStreamEvent("content", fr[e].current_round, chunk,
                                        0, << >>)>>,
                     << >>)
             /\ UNCHANGED heap
       \/ YieldSources(e, [Ended(fr[e], "returned")
                               EXCEPT !.answer = Join(fr[e].response_chunks)])
       \/ /\ TRUE \in env.stream_breaks
          /\ Throw(e, Ended(fr[e], "raise"))
    /\ Frame

\* agent_service.py:477, resumed after a content event
NextChunk(e) ==
    /\ pc[e] = "y_content"
    /\ Step(e, "a_chunk", fr[e], << >>, << >>)
    /\ UNCHANGED heap
    /\ Frame

\* a commit that gives way to other generators between its two appends
CommitInTwoSteps(e) ==
    /\ \/ /\ pc[e] = "y_sources"
          /\ SetMessages(fr[e].session,
                         Append(heap[fr[e].session].messages,
                                ChatMessage("user", fr[e].question)))
          /\ Step(e, "commit_half", fr[e], << >>, << >>)
       \/ /\ pc[e] = "commit_half"
          /\ SetMessages(fr[e].session,
                         trim_history(
                             Append(heap[fr[e].session].messages,
                                    ChatMessage("assistant", fr[e].answer))))
          /\ Step(e, "y_done", fr[e],
                  <<AgentStreamEvent("done", fr[e].current_round, "", 0,
                                     << >>)>>,
                  << >>)
    /\ Frame

\* a commit that puts its session back into the store
CommitRestoresSession(e) ==
    /\ pc[e] = "y_sources"
    /\ SetMessages(fr[e].session,
                   commit(heap[fr[e].session].messages, fr[e].question,
                          fr[e].answer))
    /\ Step(e, "y_done", fr[e],
            <<AgentStreamEvent("done", fr[e].current_round, "", 0, << >>)>>,
            << >>)
    /\ sessions' = sessions \cup {fr[e].session}
    /\ UNCHANGED <<max_retrieval_rounds, next_id, mk, tp, poll>>

\* agent_service.py:494-504
Commit(e) ==
    /\ pc[e] = "y_sources"
    /\ SetMessages(fr[e].session,
                   commit(heap[fr[e].session].messages, fr[e].question,
                          fr[e].answer))
    /\ Step(e, "y_done", fr[e],
            <<AgentStreamEvent("done", fr[e].current_round, "", 0, << >>)>>,
            << >>)
    /\ Frame

\* agent_service.py:352 and the end of the generator after 504 or 508
Finish(e) ==
    /\ pc[e] \in {"y_done", "y_error"}
    /\ Step(e, "end", fr[e], << >>, << >>)
    /\ UNCHANGED heap
    /\ Frame

Exchange(e, env) ==
    \/ Begin(e, env)
    \/ LoadTitles(e)
    \/ Classify(e, env)
    \/ IntentDone(e, env)
    \/ EnterLoop(e)
    \/ StartSearches(e)
    \/ SearchDone(e, env)
    \/ AfterRetrieval(e)
    \/ BreakLoop(e)
    \/ Evaluate(e)
    \/ EvaluationDone(e, env)
    \/ NextRound(e)
    \/ FixedAnswerDone(e)
    \/ StreamOpened(e, env)
    \/ ChunkDone(e, env)
    \/ NextChunk(e)
    \/ Commit(e)
    \/ Finish(e)

----------------------------------------------------------------------------
(* The answers of the external capabilities                                *)

A1 == Fragment("c1", 6)
A2 == Fragment("c1", 5)
B1 == Fragment("c2", 7)
B2 == Fragment("c2", 4)
Z1 == Fragment("", 3)

Env ==
    [papers |-> Papers,
     questions |-> Questions,
     session_ids |-> {NoSession} \cup SessionIds,
     titles |-> {Returned(<<"Introduction">>)},
     intents |->
        {IntentResponse("raise", "missing", "", "missing", << >>),
         IntentResponse("not_json", "missing", "", "missing", << >>),
         IntentResponse("json_other", "missing", "", "missing", << >>),
         IntentResponse("object", "valid", "method", "list",
                        <<"k1", "k2", "k3", "k4">>),
         IntentResponse("object", "missing", "", "missing", << >>)},
     searches |->
        {Raised(<< >>), Returned(<< >>), Returned(<<A1>>),
         Returned(<<B1, A2, B2>>), Returned(<<Z1>>)},
     evaluations |->
        {EvalResponse("raise", "missing", FALSE, "missing", << >>),
         EvalResponse("not_json", "missing", FALSE, "missing", << >>),
         EvalResponse("json_other", "missing", FALSE, "missing", << >>),
         EvalResponse("object", "valid", TRUE, "list", << >>),
         EvalResponse("object", "valid", FALSE, "list", <<"k5", "k6">>),
         EvalResponse("object", "valid", FALSE, "missing", << >>)},
     streams |-> {Raised(<< >>), Returned(<< >>)},
     chunks |-> {"a", "bc"},
     stream_breaks |-> {TRUE}]

Next == \E e \in Exchanges : Exchange(e, Env)

Spec == Init /\ [][Next]_vars

----------------------------------------------------------------------------
(* Concurrent exchanges and the session endpoints                          *)

\* agent_service.py:277-287, called by POST /chat/agent/new_session
create_session(paper_id) ==
    /\ next_id <= MaxSessions
    /\ sessions' = sessions \cup {next_id}
    /\ heap' = [heap EXCEPT ![next_id] = ChatHistory(paper_id, << >>)]
    /\ next_id' = next_id + 1
    /\ UNCHANGED <<max_retrieval_rounds, pc, fr, events, calls, taken, mk,
                   tp, poll>>

\* a deletion without the membership test: `del` fails on an absent key
clear_session_unguarded(session_id) ==
    /\ session_id \in sessions
    /\ sessions' = sessions \ {session_id}
    /\ UNCHANGED <<max_retrieval_rounds, heap, next_id, pc, fr, events, calls,
                   taken, mk, tp, poll>>

\* agent_service.py:515-519, called by DELETE /chat/agent/session
clear_session(session_id) ==
    /\ sessions' = sessions \ {session_id}
    /\ UNCHANGED <<max_retrieval_rounds, heap, next_id, pc, fr, events, calls,
                   taken, mk, tp, poll>>

\* agent_service.py:289-291
get_session(session_id) ==
    IF session_id \in sessions THEN session_id ELSE NoSession

\* agent_service.py:510-513; "none" stands for the None the router turns
\* into a 404
get_history(session_id) ==
    IF get_session(session_id) = NoSession THEN <<"none">>
    ELSE heap[session_id].messages

LeanEnv ==
    [papers |-> {"p1"},
     questions |-> Questions,
     session_ids |-> {NoSession, 1},
     titles |-> {Returned(<< >>)},
     intents |->
        {IntentResponse("raise", "missing", "", "missing", << >>),
         IntentResponse("not_json", "missing", "", "missing", << >>)},
     searches |-> {Returned(<< >>), Returned(<<A1>>)},
     evaluations |->
        {EvalResponse("object", "valid", TRUE, "list", << >>),
         EvalResponse("object", "valid", FALSE, "missing", << >>)},
     streams |-> {Returned(<< >>)},
     chunks |-> {"a"},
     stream_breaks |-> {}]

NextConcurrent ==
    \/ \E e \in Exchanges : Exchange(e, LeanEnv)
    \/ \E paper_id \in LeanEnv.papers : create_session(paper_id)
    \/ \E session_id \in SessionIds : clear_session(session_id)

SpecConcurrent == InitConcurrent /\ [][NextConcurrent]_vars

\* one exchange, while sessions are created and deleted
NextDeletion ==
    \/ \E e \in Exchanges : Exchange(e, LeanEnv)
    \/ \E paper_id \in LeanEnv.papers : create_session(paper_id)
    \/ \E session_id \in SessionIds : clear_session(session_id)

SpecDeletion == Init /\ [][NextDeletion]_vars

----------------------------------------------------------------------------
(* One exchange whose classification and evaluation responses take every   *)
(* shape the parsing code distinguishes                                    *)

Keywords4 == <<"k1", "k2", "k3", "k4">>
Suggested4 == <<"k5", "k6", "k7", "k8">>

ResponseEnv ==
    [papers |-> {"p1"},
     questions |-> {"", "why", LongQuestion},
     session_ids |-> {1},
     titles |-> {Raised(<< >>), Returned(<<"Introduction">>)},
     intents |->
        {IntentResponse("not_json", "missing", "", "missing", << >>),
         IntentResponse("json_other", "missing", "", "missing", << >>),
         IntentResponse("object", "valid", "method", "list", Keywords4),
         IntentResponse("object", "valid", "Experiment", "list", <<"k1">>),
         IntentResponse("object", "valid", "summary", "list", <<"k1">>),
         IntentResponse("object", "valid", "motivation", "missing", << >>),
         IntentResponse("object", "missing", "", "list", <<"k1", "k2">>),
         IntentResponse("object", "invalid", "", "list", <<"k1">>),
         IntentResponse("object", "valid", "method", "invalid", << >>)},
     searches |-> {Returned(<<A1>>)},
     evaluations |->
        {EvalResponse("not_json", "missing", FALSE, "missing", << >>),
         EvalResponse("json_other", "missing", FALSE, "missing", << >>),
         EvalResponse("object", "valid", TRUE, "list", << >>),
         EvalResponse("object", "valid", FALSE, "list", Suggested4),
         EvalResponse("object", "valid", FALSE, "missing", << >>),
         EvalResponse("object", "missing", FALSE, "list", <<"k5">>),
         EvalResponse("object", "invalid", FALSE, "list", << >>),
         EvalResponse("object", "valid", FALSE, "invalid", << >>)},
     streams |-> {Returned(<< >>)},
     chunks |-> {"a"},
     stream_breaks |-> {}]

NextResponses == \E e \in Exchanges : Exchange(e, ResponseEnv)

\* Every external call returns or fails, a synthesis stream delivers at most
\* MaxChunks chunks and the consumer takes every event: a generator that can
\* take a step takes it.
Fairness == \A e \in Exchanges : WF_vars(Exchange(e, ResponseEnv))

SpecFair == Init /\ [][NextResponses]_vars /\ Fairness

SpecResponses == Init /\ [][NextResponses]_vars

----------------------------------------------------------------------------
(* One exchange whose searches return many fragments                       *)

Tenfold(s) == s \o s \o s \o s \o s \o s \o s \o s \o s \o s

\* a fragment with a text of about 1500 characters
LongFragment(chunk_id, score) ==
    Passage(chunk_id, score, "Section " \o chunk_id,
            "text of " \o chunk_id \o ": "
                \o Tenfold(Tenfold("0123456789abcde")))

F1 == LongFragment("d1", 3)
F2 == LongFragment("d2", 9)
F3 == LongFragment("d3", 5)
F4 == LongFragment("d4", 8)
F5 == LongFragment("d5", 2)
F6 == LongFragment("d6", 7)
F7 == LongFragment("d7", 6)

SourcesEnv ==
    [papers |-> {"p1"},
     questions |-> Questions,
     session_ids |-> {1},
     titles |-> {Returned(<<"Introduction">>)},
     intents |->
        {IntentResponse("object", "valid", "method", "list", <<"k1", "k2">>)},
     searches |->
        {Returned(<< >>), Returned(<<F1, F2, F3>>), Returned(<<F4, F5, F6>>),
         Returned(<<F3, F7>>)},
     evaluations |->
        {EvalResponse("object", "valid", TRUE, "list", << >>),
         EvalResponse("object", "valid", FALSE, "missing", << >>)},
     streams |-> {Returned(<< >>)},
     chunks |-> {"a"},
     stream_breaks |-> {}]

NextSources == \E e \in Exchanges : Exchange(e, SourcesEnv)

SpecSources == Init /\ [][NextSources]_vars

----------------------------------------------------------------------------
(* One exchange over an index that holds fragments without a chunk id      *)

Z2 == Fragment("", 8)

\* the fragments the index returns for each query
Index ==
    [query_text \in {"k1", "k2", "k3", "k4", "why"} |->
        CASE query_text = "k1" -> <<A1, Z1>>
          [] query_text = "k2" -> <<Z1>>
          [] query_text = "k3" -> <<Z2, Z1>>
          [] query_text = "k4" -> <<Z2, B1, A2>>
          [] OTHER -> << >>]

IndexEnv ==
    [papers |-> {"p1"},
     questions |-> Questions,
     session_ids |-> {1},
     titles |-> {Returned(<<"Introduction">>)},
     intents |->
        {IntentResponse("object", "valid", "method", "list", <<"k1", "k2">>),
         IntentResponse("object", "valid", "method", "list", <<"k2", "k3">>)},
     index |-> Index,
     evaluations |->
        {EvalResponse("object", "valid", TRUE, "list", << >>),
         EvalResponse("object", "valid", FALSE, "list", <<"k2", "k3">>),
         EvalResponse("object", "valid", FALSE, "list", <<"k4">>),
         EvalResponse("object", "valid", FALSE, "missing", << >>)},
     streams |-> {Returned(<< >>)},
     chunks |-> {"a"},
     stream_breaks |-> {}]

NextIndex == \E e \in Exchanges : Exchange(e, IndexEnv)

SpecIndex == Init /\ [][NextIndex]_vars

----------------------------------------------------------------------------
(* The consumer goes away: the stream is closed while the generator is     *)
(* parked (GeneratorExit at a yield, CancelledError at an await)           *)

\* a generator that stores what it has of the answer when it is closed
on_close_commits(messages, question, response_chunks) ==
    commit(messages, question, Join(response_chunks))

\* agent_service.py:506: neither GeneratorExit nor CancelledError is an
\* Exception, and chat_stream has no finally clause, so nothing runs
on_close(messages, question, response_chunks) == messages

\* chat.py:167-186: the consumer stops iterating
Close(e) ==
    /\ pc[e] \in YieldStates \cup AwaitStates
    /\ pc' = [pc EXCEPT ![e] = "closed"]
    /\ IF fr[e].session = NoSession
       THEN UNCHANGED heap
       ELSE SetMessages(fr[e].session,
                        on_close(heap[fr[e].session].messages, fr[e].question,
                                 fr[e].response_chunks))
    /\ UNCHANGED <<max_retrieval_rounds, sessions, next_id, fr, events, calls,
                   taken, mk, tp, poll>>

NextConsumer ==
    \/ \E e \in Exchanges : Exchange(e, LeanEnv)
    \/ \E e \in Exchanges : Close(e)

SpecConsumer == Init /\ [][NextConsumer]_vars

----------------------------------------------------------------------------
(* The multi-keyword search of the vector store                            *)

MaxKeywords == 4

D1 == Fragment("c3", 6)

\* what one call of search_similar_chunks can give back
MultiSearches ==
    {Raised(<< >>), Returned(<< >>), Returned(<<A1, B2>>),
     Returned(<<B1, A2, Z1>>), Returned(<<D1>>)}

\* a loop that stops after KeywordCap keywords, as the agent's loop does
more_keywords_capped(k, keywords) == k < Min(Len(keywords), KeywordCap)

\* vectorization_service.py:186: `for keyword in keywords`
more_keywords(k, keywords) == k < Len(keywords)

\* search_multi_keywords is called with n keywords
InitMulti ==
    /\ InitStore({0})
    /\ max_retrieval_rounds = 0
    /\ pc = [e \in Exchanges |-> "off"]
    /\ tp = NoTranslation
    /\ poll = NoPolling
    /\ \E n \in 0..MaxKeywords :
          mk = [NoSearch EXCEPT !.pc = "loop",
                                !.keywords = [i \in 1..n |-> "k" \o ToString(i)]]

\* vectorization_service.py:186-194: the search for the next keyword starts
search_next_keyword ==
    /\ mk.pc = "loop"
    /\ more_keywords(mk.k, mk.keywords)
    /\ mk' = [mk EXCEPT !.pc = "a_search", !.k = @ + 1]
    /\ UNCHANGED <<max_retrieval_rounds, sessions, heap, next_id, pc, fr,
                   events, calls, taken, tp, poll>>

\* vectorization_service.py:187-200: the search returns and its results are
\* merged, or it fails and the call fails with it
keyword_search_done ==
    /\ mk.pc = "a_search"
    /\ \E outcome \in MultiSearches :
          IF outcome.raised
          THEN mk' = [mk EXCEPT !.pc = "raised"]
          ELSE LET new == dedup_from(outcome.value, mk.seen_chunks)
               IN mk' = [mk EXCEPT
                           !.pc = "loop",
                           !.all_results = @ \o new,
                           !.seen_chunks = @ \cup ChunkIds(new),
                           !.searched =
                               Append(@, [query |-> mk.keywords[mk.k],
                                          results |-> outcome.value])]
    /\ UNCHANGED <<max_retrieval_rounds, sessions, heap, next_id, pc, fr,
                   events, calls, taken, tp, poll>>

\* vectorization_service.py:202-205
search_multi_keywords_returns ==
    /\ mk.pc = "loop"
    /\ ~more_keywords(mk.k, mk.keywords)
    /\ mk' = [mk EXCEPT !.pc = "returned",
                        !.value = SortByScore(mk.all_results)]
    /\ UNCHANGED <<max_retrieval_rounds, sessions, heap, next_id, pc, fr,
                   events, calls, taken, tp, poll>>

NextMulti ==
    \/ search_next_keyword
    \/ keyword_search_done
    \/ search_multi_keywords_returns

SpecMulti == InitMulti /\ [][NextMulti]_vars

----------------------------------------------------------------------------
(* The translation of a paper, section by section                          *)

MaxSections == 11

\* translator.py:28
MAX_CONCURRENT_TRANSLATIONS == 10

\* translator.py:209: a section longer than this is translated by paragraph
LongSectionLimit == 3000

\* translator.py:18-20, the Chinese keyword written as four ASCII letters
STOP_SECTIONS == {"references", "bibliography", "ckwx"}

\* translator.py:23-25, the Chinese keyword written as two ASCII letters
SKIP_SECTIONS == {"acknowledgments", "acknowledgements", "zx"}

Whitespace == {" ", "\t", "\n", "\r"}

\* str.strip
strip(s) ==
    LET black(i) == SubSeq(s, i, i) \notin Whitespace
    IN IF \A i \in 1..Len(s) : ~black(i) THEN ""
       ELSE SubSeq(s,
                   CHOOSE i \in 1..Len(s) :
                       black(i) /\ \A j \in 1..(i - 1) : ~black(j),
                   CHOOSE i \in 1..Len(s) :
                       black(i) /\ \A j \in (i + 1)..Len(s) : ~black(j))

\* `sub in s`
contains(sub, s) ==
    \E i \in 1..(Len(s) - Len(sub) + 1) : SubSeq(s, i, i + Len(sub) - 1) = sub

RECURSIVE split_from(_, _, _)
\* str.split(sep) of the text from position p on
split_from(text, sep, p) ==
    LET hits == {i \in p..(Len(text) - Len(sep) + 1) :
                    SubSeq(text, i, i + Len(sep) - 1) = sep}
    IN IF hits = {} THEN <<SubSeq(text, p, Len(text))>>
       ELSE LET i == CHOOSE h \in hits : \A g \in hits : h <= g
            IN <<SubSeq(text, p, i - 1)>> \o split_from(text, sep, i + Len(sep))

PaperSection(title, content) == [title |-> title, content |-> content]

TranslationSegment(original, translated, section_title) ==
    [original |-> original, translated |-> translated,
     section_title |-> section_title]

\* translator.py:59-69
should_stop_at_section(title) ==
    \E stop \in STOP_SECTIONS : contains(stop, strip(lower(title)))

\* translator.py:71-81
should_skip_section(title) ==
    \E skip \in SKIP_SECTIONS : contains(skip, strip(lower(title)))

\* translator.py:116 and 203: `not content or not content.strip()`
blank(content) == content = "" \/ strip(content) = ""

RECURSIVE filter_from(_, _, _, _, _)
\* translator.py:98-122: the loop, from section i on
filter_from(sections, i, filtered, skipped_count, stop_found) ==
    IF i > Len(sections)
    THEN [filtered |-> filtered, skipped_count |-> skipped_count]
    ELSE LET section == sections[i]
         IN IF stop_found
            THEN filter_from(sections, i + 1, filtered, skipped_count + 1,
                             stop_found)
            ELSE IF should_stop_at_section(section.title)
            THEN filter_from(sections, i + 1, filtered, skipped_count + 1,
                             TRUE)
            ELSE IF should_skip_section(section.title)
            THEN filter_from(sections, i + 1, filtered, skipped_count + 1,
                             stop_found)
            ELSE IF blank(section.content)
            THEN filter_from(sections, i + 1, filtered, skipped_count + 1,
                             stop_found)
            ELSE filter_from(sections, i + 1, Append(filtered, section),
                             skipped_count, stop_found)

\* translator.py:84-124
filter_sections(sections) == filter_from(sections, 1, << >>, 0, FALSE)

\* translator.py:126-178: the answer of the language model is stripped, a
\* failure of the call is raised again
translate_text(text, response) ==
    IF response.raised THEN Raised("")
    ELSE Returned(strip(response.value))

\* translator.py:362: the paragraphs of a text that are not blank, stripped
paragraphs_of(text) ==
    LET pieces == split_from(text, "\n\n", 1)
        kept == SelectSeq(pieces, LAMBDA p : strip(p) /= "")
    IN [i \in 1..Len(kept) |-> strip(kept[i])]

\* translator.py:343-397: one translation per paragraph; gather hands back
\* the exception of a failed paragraph, and unpacking it at 391 raises
translate_long_section(text, section_title, responses) ==
    LET paragraphs == paragraphs_of(text)
        translated == [i \in 1..Len(paragraphs) |->
                          translate_text(paragraphs[i], responses[i])]
    IN IF \E i \in 1..Len(paragraphs) : translated[i].raised
       THEN Raised(<< >>)
       ELSE Returned([i \in 1..Len(paragraphs) |->
                         TranslationSegment(paragraphs[i],
                                            translated[i].value,
                                            section_title)])

\* translator.py:180-229
translate_section(section, responses) ==
    IF blank(section.content) THEN Returned(<< >>)
    ELSE IF Len(section.content) > LongSectionLimit
    THEN translate_long_section(section.content, section.title, responses)
    ELSE LET translated == translate_text(section.content, responses[1])
         IN IF translated.raised THEN Raised(<< >>)
            ELSE Returned(<<TranslationSegment(section.content,
                                               translated.value,
                                               section.title)>>)

\* the language model's translation of a text, before it is stripped
zh(text) == " zh:" \o text \o "\n"

LongParagraph == Tenfold(Tenfold(Tenfold("ab")))
OtherParagraph == Tenfold(Tenfold("0123456789ab"))

\* a paper with MaxSections sections to translate, then sections to leave out
LongPaper ==
    [paper_id |-> "long",
     sections |->
        [i \in 1..MaxSections |-> PaperSection("s" \o Num(i), "c" \o Num(i))]
        \o <<PaperSection("Acknowledgments", "thanks"),
             PaperSection("Notes", " \n "),
             PaperSection("7. References", "[1] a"),
             PaperSection("Appendix A", "proofs")>>,
     full_content |-> "all"]

MixedPaper ==
    [paper_id |-> "mixed",
     sections |->
        <<PaperSection("Intro", "one"),
          PaperSection("Method",
                       LongParagraph \o "\n\n" \o " \n\n" \o OtherParagraph),
          PaperSection(" ACKNOWLEDGEMENTS ", "thanks"),
          PaperSection("Results", "two"),
          PaperSection("Selected Bibliography", "[1] a"),
          PaperSection("Appendix", "more")>>,
     full_content |-> "one\n\ntwo"]

ReferencesFirstPaper ==
    [paper_id |-> "refs",
     sections |-> <<PaperSection("REFERENCES", "[1] a"),
                    PaperSection("Intro", "one")>>,
     full_content |-> "one"]

UnstructuredPaper ==
    [paper_id |-> "flat", sections |-> << >>, full_content |-> "one\n\ntwo"]

TranslationPapers ==
    {LongPaper, MixedPaper, ReferencesFirstPaper, UnstructuredPaper}

\* the texts whose translation can fail
FlakyTexts == {"c02", "two", OtherParagraph}

\* what the language model can answer to the translation of n texts
Responses(texts) ==
    {r \in [1..Len(texts) -> {"returned", "raise"}] :
        \A i \in 1..Len(texts) : r[i] = "raise" => texts[i] \in FlakyTexts}

Answers(texts, r) ==
    [i \in 1..Len(texts) |->
        IF r[i] = "raise" THEN Raised("") ELSE Returned(zh(texts[i]))]

\* the texts that the translation of a content sends to the language model
texts_of(content) ==
    IF Len(content) > LongSectionLimit THEN paragraphs_of(content)
    ELSE <<content>>

TranslationResult(segments, status) ==
    [segments |-> segments, status |-> status]

\* translate_paper is called
InitTranslate ==
    /\ InitStore({0})
    /\ max_retrieval_rounds = 0
    /\ pc = [e \in Exchanges |-> "off"]
    /\ mk = NoSearch
    /\ poll = NoPolling
    /\ \E paper \in TranslationPapers, translate_by_section \in BOOLEAN :
          tp = [pc |-> "start", paper |-> paper,
                translate_by_section |-> translate_by_section,
                sections_to_translate |-> << >>, skipped_count |-> 0,
                value |-> 0, task |-> << >>, results |-> << >>,
                failed |-> {}, overtaken |-> FALSE, peak |-> 0,
                result |-> TranslationResult(<< >>, "none")]

TranslateFrame ==
    UNCHANGED <<max_retrieval_rounds, sessions, heap, next_id, pc, fr,
                events, calls, taken, mk, poll>>

\* translator.py:254-304: the sections are filtered and one task per
\* section is handed to gather, or the whole text is translated
translate_paper_starts ==
    /\ tp.pc = "start"
    /\ IF tp.translate_by_section /\ tp.paper.sections /= << >>
       THEN LET f == filter_sections(tp.paper.sections)
            IN IF f.filtered = << >>
               THEN tp' = [tp EXCEPT
                             !.pc = "returned",
                             !.skipped_count = f.skipped_count,
                             !.result = TranslationResult(<< >>, "completed")]
               ELSE tp' = [tp EXCEPT
                             !.pc = "gather",
                             !.sections_to_translate = f.filtered,
                             !.skipped_count = f.skipped_count,
                             !.value = MAX_CONCURRENT_TRANSLATIONS,
                             !.task = [i \in 1..Len(f.filtered) |-> "waiting"],
                             !.results = [i \in 1..Len(f.filtered) |-> << >>]]
       ELSE tp' = [tp EXCEPT !.pc = "full_text"]
    /\ TranslateFrame

InFlight == {i \in 1..Len(tp.task) : tp.task[i] = "running"}

\* a task that enters without taking a place of the semaphore
acquire_unguarded(i) ==
    /\ tp.pc = "gather"
    /\ i <= Len(tp.task)
    /\ tp.task[i] = "waiting"
    /\ \A j \in 1..(i - 1) : tp.task[j] /= "waiting"
    /\ tp' = [tp EXCEPT !.task[i] = "running",
                        !.peak = IF Cardinality(InFlight) + 1 > @
                                 THEN Cardinality(InFlight) + 1 ELSE @]
    /\ TranslateFrame

\* translator.py:285: `async with semaphore`; the tasks start in the order
\* of their creation and a semaphore wakes its waiters in that order
acquire(i) ==
    /\ tp.pc = "gather"
    /\ i <= Len(tp.task)
    /\ tp.task[i] = "waiting"
    /\ \A j \in 1..(i - 1) : tp.task[j] /= "waiting"
    /\ tp.value > 0
    /\ tp' = [tp EXCEPT !.task[i] = "running",
                        !.value = @ - 1,
                        !.peak = IF Cardinality(InFlight) + 1 > @
                                 THEN Cardinality(InFlight) + 1 ELSE @]
    /\ TranslateFrame

\* translator.py:285-298: the translation of section i returns or fails, and
\* the task leaves the semaphore with (idx, segments) or (idx, [])
section_done(i) ==
    /\ tp.pc = "gather"
    /\ i <= Len(tp.task)
    /\ tp.task[i] = "running"
    /\ LET section == tp.sections_to_translate[i]
           texts == texts_of(section.content)
       IN \E r \in Responses(texts) :
             LET result == translate_section(section, Answers(texts, r))
             IN tp' = [tp EXCEPT
                         !.task[i] = "done",
                         !.value = @ + 1,
                         !.results[i] = IF result.raised THEN << >>
                                        ELSE result.value,
                         !.failed = IF result.raised THEN @ \cup {i} ELSE @,
                         !.overtaken =
                             @ \/ \E j \in 1..(i - 1) : tp.task[j] /= "done"]
    /\ TranslateFrame

RECURSIVE extend_all(_, _)
\* translator.py:316-318: the segments of the results, one after another
extend_all(sorted_results, k) ==
    IF k > Len(sorted_results) THEN << >>
    ELSE sorted_results[k][2] \o extend_all(sorted_results, k + 1)

RECURSIVE insert_by_idx(_, _)
insert_by_idx(pair, sorted) ==
    IF sorted = << >> THEN <<pair>>
    ELSE IF pair[1] < sorted[1][1] THEN <<pair>> \o sorted
    ELSE <<sorted[1]>> \o insert_by_idx(pair, Tail(sorted))

RECURSIVE sort_by_idx(_)
\* translator.py:310-313: sorted(..., key=lambda x: x[0])
sort_by_idx(results) ==
    IF results = << >> THEN << >>
    ELSE insert_by_idx(results[Len(results)],
                       sort_by_idx(SubSeq(results, 1, Len(results) - 1)))

\* translator.py:307-334: gather returns the results of the tasks, which
\* are sorted by index and merged
gather_returns ==
    /\ tp.pc = "gather"
    /\ \A i \in 1..Len(tp.task) : tp.task[i] = "done"
    /\ LET results == [i \in 1..Len(tp.task) |-> <<i - 1, tp.results[i]>>]
           sorted_results == sort_by_idx(results)
       IN tp' = [tp EXCEPT
                   !.pc = "returned",
                   !.result = TranslationResult(extend_all(sorted_results, 1),
                                                "completed")]
    /\ TranslateFrame

\* translator.py:320-344: the whole text is translated by paragraph; a
\* failure is caught and reported in the status
full_text_done ==
    /\ tp.pc = "full_text"
    /\ LET texts == paragraphs_of(tp.paper.full_content)
       IN \E r \in Responses(texts) :
             LET result == translate_long_section(tp.paper.full_content,
                                                  "", Answers(texts, r))
             IN tp' = [tp EXCEPT
                         !.pc = "returned",
                         !.result = IF result.raised
                                    THEN TranslationResult(<< >>, "failed")
                                    ELSE TranslationResult(result.value,
                                                           "completed")]
    /\ TranslateFrame

NextTranslate ==
    \/ translate_paper_starts
    \/ \E i \in 1..MaxSections : acquire(i)
    \/ \E i \in 1..MaxSections : section_done(i)
    \/ gather_returns
    \/ full_text_done

SpecTranslate == InitTranslate /\ [][NextTranslate]_vars

----------------------------------------------------------------------------
(* Waiting for a MinerU task                                               *)

MaxTimeout == 3

\* Python's None
None == "None"

\* mineru_client.py:229-230
status_map(state) ==
    CASE state = "pending" -> "pending"
      [] state = "processing" -> "processing"
      [] state = "done" -> "completed"
      [] state = "failed" -> "failed"
      [] OTHER -> state

\* what the task endpoint answers: a failed request, or a JSON object with
\* a code and with data that is an object, null or missing
ApiResponse(kind, code, data_kind, state, full_zip_url) ==
    [kind |-> kind, code |-> code, data_kind |-> data_kind, state |-> state,
     full_zip_url |-> full_zip_url]

StatusInfo(status, result_url) == [status |-> status, result_url |-> result_url]

\* mineru_client.py:203-255: the status information of an answer; a failed
\* request (215), a code other than 0 (219-220) and data that is null (227)
\* raise
check_status(response) ==
    IF response.kind = "http_error" THEN Raised(None)
    ELSE IF response.code /= 0 THEN Raised(None)
    ELSE IF response.data_kind = "null" THEN Raised(None)
    ELSE IF response.data_kind = "missing"
    THEN Returned(StatusInfo(status_map(None), None))
    ELSE Returned(StatusInfo(status_map(response.state),
                             response.full_zip_url))

ApiResponses ==
    {ApiResponse("http_error", 0, "missing", None, None),
     ApiResponse("json", 1, "object", "done", "url"),
     ApiResponse("json", 0, "null", None, None),
     ApiResponse("json", 0, "missing", None, None),
     ApiResponse("json", 0, "object", "pending", None),
     ApiResponse("json", 0, "object", "processing", ""),
     ApiResponse("json", 0, "object", "converting", "url"),
     ApiResponse("json", 0, "object", "done", "url"),
     ApiResponse("json", 0, "object", "done", None),
     ApiResponse("json", 0, "object", "done", ""),
     ApiResponse("json", 0, "object", "failed", None)}

\* how long a status request or a download can take, in poll intervals
CallDurations == {0, 1}

PollIntervals == {1, 2}

\* a wait that gives up as soon as the timeout is reached
timed_out_at_limit(elapsed, timeout) == elapsed >= timeout

\* mineru_client.py:272
timed_out(elapsed, timeout) == elapsed > timeout

\* `not result_url`
falsy(value) == value = None \/ value = ""

\* wait_for_completion is called
InitPolling ==
    /\ InitStore({0})
    /\ max_retrieval_rounds = 0
    /\ pc = [e \in Exchanges |-> "off"]
    /\ mk = NoSearch
    /\ tp = NoTranslation
    /\ \E timeout \in 1..MaxTimeout, poll_interval \in PollIntervals :
          poll = [pc |-> "loop", timeout |-> timeout,
                  poll_interval |-> poll_interval, now |-> 0, elapsed |-> 0,
                  statuses |-> << >>, status_info |-> StatusInfo(None, None),
                  exception |-> None, value |-> None]

PollingFrame ==
    UNCHANGED <<max_retrieval_rounds, sessions, heap, next_id, pc, fr,
                events, calls, taken, mk, tp>>

\* mineru_client.py:270-275: the head of the loop
loop_head ==
    /\ poll.pc = "loop"
    /\ LET elapsed == poll.now
       IN IF timed_out(elapsed, poll.timeout)
          THEN poll' = [poll EXCEPT !.pc = "raised", !.elapsed = elapsed,
                                    !.exception = "TimeoutError"]
          ELSE poll' = [poll EXCEPT !.pc = "a_check_status",
                                    !.elapsed = elapsed]
    /\ PollingFrame

\* mineru_client.py:275-291: the status request ends; it is repeated by a
\* decorator (202), and the attempt that ends the call returns the status
\* information of its answer or raises
check_status_done ==
    /\ poll.pc = "a_check_status"
    /\ \E response \in ApiResponses, d \in CallDurations :
          LET outcome == check_status(response)
              status_info == outcome.value
              status == status_info.status
              p == [poll EXCEPT !.now = @ + d]
          IN IF outcome.raised
             THEN poll' = [p EXCEPT !.pc = "raised",
                                    !.exception = "check_status"]
             ELSE LET q == [p EXCEPT !.status_info = status_info,
                                     !.statuses = Append(@, status)]
                  IN IF status = "completed"
                     THEN IF falsy(status_info.result_url)
                          THEN poll' = [q EXCEPT !.pc = "raised",
                                                 !.exception = "no result URL"]
                          ELSE poll' = [q EXCEPT !.pc = "a_download_result"]
                     ELSE IF status = "failed"
                     THEN poll' = [q EXCEPT !.pc = "raised",
                                            !.exception = "task failed"]
                     ELSE poll' = [q EXCEPT !.pc = "a_sleep"]
    /\ PollingFrame

\* mineru_client.py:285-287: the download ends with the result or raises
download_result_done ==
    /\ poll.pc = "a_download_result"
    /\ \E ok \in BOOLEAN, d \in CallDurations :
          IF ok
          THEN poll' = [poll EXCEPT !.pc = "returned", !.now = @ + d,
                                    !.value = "result_content"]
          ELSE poll' = [poll EXCEPT !.pc = "raised", !.now = @ + d,
                                    !.exception = "download_result"]
    /\ PollingFrame

\* mineru_client.py:294
sleep_done ==
    /\ poll.pc = "a_sleep"
    /\ poll' = [poll EXCEPT !.pc = "loop", !.now = @ + poll.poll_interval]
    /\ PollingFrame

NextPolling ==
    \/ loop_head
    \/ check_status_done
    \/ download_result_done
    \/ sleep_done

SpecPolling == InitPolling /\ [][NextPolling]_vars

----------------------------------------------------------------------------
(* Properties                                                              *)

EventsOf(e, type) == Positions(events[e], LAMBDA ev : ev.type = type)
TerminalPositions(e) ==
    Positions(events[e], LAMBDA ev : ev.type \in TerminalTypes)
LastEvent(e) == events[e][Len(events[e])]
EndedWith(e, type) == events[e] /= << >> /\ LastEvent(e).type = type
CallsOf(e, capability) ==
    Positions(calls[e], LAMBDA c : c.capability = capability)

\* C1: every exchange emits exactly one terminal event, done or error, never
\* both, and nothing follows it: at any moment the stream holds at most one
\* terminal event, a terminal event is the last event, and a generator that
\* has ended has emitted one.
C1_OneTerminalEvent ==
    \A e \in Exchanges :
        /\ Cardinality(TerminalPositions(e)) <= 1
        /\ \A i \in TerminalPositions(e) : i = Len(events[e])
        /\ pc[e] = "end" => Cardinality(TerminalPositions(e)) = 1
        /\ TerminalPositions(e) /= {} <=> pc[e] \in {"y_done", "y_error", "end"}

\* an exchange that failed in the middle of the answer, after two increments
C1_Witness ==
    /\ pc[1] = "end"
    /\ EndedWith(1, "error")
    /\ Cardinality(EventsOf(1, "content")) = 2

\* C2: an exchange that ends with an error event leaves the history of
\* every session as it was when the exchange started.
C2_ErrorLeavesHistory ==
    \A e \in Exchanges :
        EndedWith(e, "error") => Histories = fr[e].histories_at_start

\* a synthesis failure after an increment was emitted, on a session that
\* already has a history
C2_Witness ==
    /\ pc[1] = "end"
    /\ EndedWith(1, "error")
    /\ EventsOf(1, "content") /= {}
    /\ fr[1].session = 1
    /\ heap[1].messages /= << >>

\* C3: a history never holds more than 20 messages, and the step that
\* commits a turn leaves the newest 20 messages of the old history followed
\* by the turn's user and assistant message, in their order (the oldest are
\* the ones dropped); no other step changes a history.
C3_HistoryBounded ==
    /\ [](\A s \in SessionIds : Len(heap[s].messages) <= 20)
    /\ [][\A s \in SessionIds :
            LET old == heap[s].messages
                new == heap'[s].messages
                committing == {e \in Exchanges :
                                  /\ fr[e].session = s
                                  /\ pc[e] = "y_sources" /\ pc'[e] = "y_done"}
            IN IF committing = {} THEN new = old
               ELSE \E e \in committing :
                    LET all == old \o <<ChatMessage("user", fr[e].question),
                                        ChatMessage("assistant", fr[e].answer)>>
                        dropped == Len(all) - Len(new)
                    IN /\ Len(new) = Min(20, Len(all))
                       /\ \A i \in 1..Len(new) : new[i] = all[dropped + i]]_vars

\* both exchanges committed to the session that held 20 messages: the two
\* oldest turns are gone
C3_Witness ==
    /\ pc[1] = "end" /\ pc[2] = "end"
    /\ EndedWith(1, "done") /\ EndedWith(2, "done")
    /\ fr[1].session = 1 /\ fr[2].session = 1
    /\ Len(heap[1].messages) = 20
    /\ heap[1].messages[1].content = "q" \o Num(PriorTurns - 7)
    /\ heap[1].messages[15].content = "q" \o Num(PriorTurns)
    /\ heap[1].messages[17].content = "why"

\* C4: the number of rounds started in an exchange never exceeds
\* max_retrieval_rounds, whatever the evaluator answers and also when
\* max_retrieval_rounds is 0.
C4_RoundsBounded ==
    \A e \in Exchanges :
        /\ fr[e].current_round <= max_retrieval_rounds
        /\ Cardinality(Positions(events[e],
                LAMBDA ev : ev.type = "retrieval" /\ ev.text = "start"))
             <= max_retrieval_rounds
        /\ Cardinality(CallsOf(e, "evaluation")) <= max_retrieval_rounds

\* every verdict was insufficient and the exchange still ended, in the last
\* allowed round
C4_Witness ==
    /\ pc[1] = "end"
    /\ EndedWith(1, "done")
    /\ max_retrieval_rounds = MaxRoundsBound
    /\ fr[1].current_round = max_retrieval_rounds
    /\ ~fr[1].is_sufficient
    /\ Cardinality(CallsOf(1, "evaluation")) = max_retrieval_rounds

\* C5: at the end of every round the accumulated list holds no two
\* fragments with the same id, and it is at least as long as at the end of
\* the round before.
C5_NoDuplicatesNonDecreasing ==
    \A e \in Exchanges :
        \A k \in 1..Len(fr[e].round_end) :
            /\ NoDuplicateIds(fr[e].round_end[k])
            /\ k > 1 => Len(fr[e].round_end[k - 1]) <= Len(fr[e].round_end[k])

\* round 2 found fragment c1 again, next to the new fragment c2
C5_Witness ==
    /\ Len(fr[1].round_end) = 2
    /\ fr[1].round_end[1] = <<A1>>
    /\ fr[1].round_end[2] = <<A1, B1>>

\* C6: merging a round only adds: the list at the end of a round is a
\* prefix of the list at the end of the next round (first-seen order).
C6_OnlyAdds ==
    \A e \in Exchanges :
        \A k \in 2..Len(fr[e].round_end) :
            IsPrefix(fr[e].round_end[k - 1], fr[e].round_end[k])

\* the fragment found in round 2 has the higher score and still comes
\* second
C6_Witness ==
    /\ pc[1] = "y_retrieval_count"
    /\ fr[1].current_round = 2
    /\ Len(fr[1].all_results) = 2
    /\ fr[1].all_results[1].score < fr[1].all_results[2].score
    /\ fr[1].round_end[1] = <<fr[1].all_results[1]>>

InRound(e, type, r) ==
    Positions(events[e], LAMBDA ev : ev.type = type /\ ev.round = r)

\* every event at a position of `first` is emitted before every event at a
\* position of `second`
Precede(first, second) == \A i \in first, j \in second : i < j

\* C7 as stated: within each round the thinking events precede the
\* retrieval events, which precede the evaluation event; evaluation
\* precedes content, content precedes sources, sources precedes the
\* terminal event.
C7_AsStated ==
    \A e \in Exchanges :
        /\ \A r \in 1..max_retrieval_rounds :
              /\ Precede(InRound(e, "thinking", r), InRound(e, "retrieval", r))
              /\ Precede(InRound(e, "retrieval", r), InRound(e, "evaluation", r))
        /\ Precede(EventsOf(e, "evaluation"), EventsOf(e, "content"))
        /\ Precede(EventsOf(e, "content"), EventsOf(e, "sources"))
        /\ Precede(EventsOf(e, "sources"), TerminalPositions(e))

\* C7, amended: the thinking events of the intent step precede every
\* retrieval event; within each round the retrieval events precede the
\* round's thinking event, which precedes the round's evaluation event;
\* evaluation precedes content, content precedes sources, sources precedes
\* the terminal event.
C7_CausalOrder ==
    \A e \in Exchanges :
        /\ Precede(InRound(e, "thinking", 0), EventsOf(e, "retrieval"))
        /\ \A r \in 1..max_retrieval_rounds :
              /\ Precede(InRound(e, "retrieval", r), InRound(e, "thinking", r))
              /\ Precede(InRound(e, "thinking", r), InRound(e, "evaluation", r))
              /\ Precede(InRound(e, "retrieval", r), InRound(e, "evaluation", r))
        /\ Precede(EventsOf(e, "evaluation"), EventsOf(e, "content"))
        /\ Precede(EventsOf(e, "content"), EventsOf(e, "sources"))
        /\ Precede(EventsOf(e, "sources"), TerminalPositions(e))

\* a complete exchange with two rounds, an evaluation in each, and an answer
C7_Witness ==
    /\ pc[1] = "end"
    /\ EndedWith(1, "done")
    /\ Cardinality(EventsOf(1, "evaluation")) = 2
    /\ Cardinality(Positions(events[1],
            LAMBDA ev : ev.type = "thinking" /\ ev.round = 2)) = 1
    /\ EventsOf(1, "content") /= {}
    /\ EventsOf(1, "sources") /= {}

\* the payloads of the content events, in emission order
ContentTexts(e) ==
    LET content == SelectSeq(events[e], LAMBDA ev : ev.type = "content")
    IN [i \in 1..Len(content) |-> content[i].text]

Concatenation(texts) ==
    LET upto[i \in 0..Len(texts)] ==
            IF i = 0 THEN "" ELSE upto[i - 1] \o texts[i]
    IN upto[Len(texts)]

\* C8: the content events carry the increments in the order the synthesis
\* stream produced them, one event per increment, and in an exchange that
\* ends with done their concatenation is the content of the assistant
\* message committed to the history.
C8_ContentIsAnswer ==
    \A e \in Exchanges :
        /\ \/ ContentTexts(e) = fr[e].response_chunks
           \/ /\ fr[e].response_chunks = << >>
              /\ ContentTexts(e) = <<NOT_FOUND_ANSWER>>
        /\ EndedWith(e, "done") =>
              LET messages == heap[fr[e].session].messages
              IN /\ messages /= << >>
                 /\ messages[Len(messages)] =
                       ChatMessage("assistant", Concatenation(ContentTexts(e)))

\* an answer streamed in two increments
C8_Witness ==
    /\ pc[1] = "end"
    /\ EndedWith(1, "done")
    /\ ContentTexts(1) = <<"a", "bc">>
    /\ heap[fr[1].session].messages[Len(heap[fr[1].session].messages)].content
          = "abc"

\* C9: the history is mutated only by the commit step: while an exchange
\* has not emitted its sources event every history equals its value at the
\* start of the exchange, a history changes only in the step from the
\* sources event to the done event, and an exchange that ended with done
\* has appended its question and its answer, once.
C9_OnlyCommitMutates ==
    /\ [](\A e \in Exchanges :
            /\ (pc[e] \notin {"off", "start"} /\ EventsOf(e, "sources") = {})
                  => Histories = fr[e].histories_at_start
            /\ EndedWith(e, "done") =>
                  heap[fr[e].session].messages =
                     Last(fr[e].histories_at_start[fr[e].session]
                             \o <<ChatMessage("user", fr[e].question),
                                  ChatMessage("assistant", fr[e].answer)>>,
                          20))
    /\ [][\A s \in SessionIds :
            heap'[s].messages /= heap[s].messages =>
               \E e \in Exchanges :
                  /\ fr[e].session = s
                  /\ EndedWith(e, "sources")
                  /\ pc[e] = "y_sources" /\ pc'[e] = "y_done"]_vars

\* the first turn of a session: its history is the question and the answer
C9_Witness ==
    /\ pc[1] = "y_done"
    /\ fr[1].histories_at_start[fr[1].session] = << >>
    /\ heap[fr[1].session].messages =
          <<ChatMessage("user", "why"), ChatMessage("assistant", "bc")>>

EmptyAfterRound1(e) ==
    \E i \in 1..Len(events[e]) :
        /\ events[e][i].type = "retrieval" /\ events[e][i].text = "count"
        /\ events[e][i].round = 1 /\ events[e][i].n = 0

\* C10: when the retrieval of round 1 leaves the accumulated list empty, the
\* exchange makes no evaluation call, starts no further round, makes no
\* synthesis call, answers with the fixed not-found text and emits no error
\* event.
C10_EmptyEvidencePath ==
    \A e \in Exchanges :
        EmptyAfterRound1(e) =>
            /\ CallsOf(e, "evaluation") = {}
            /\ CallsOf(e, "synthesis") = {}
            /\ fr[e].current_round = 1
            /\ \A i \in CallsOf(e, "search") : calls[e][i].round = 1
            /\ EventsOf(e, "error") = {}
            /\ \A i \in EventsOf(e, "content") :
                  events[e][i].text = NOT_FOUND_ANSWER
            /\ pc[e] = "end" =>
                  (EndedWith(e, "done") /\ EventsOf(e, "content") /= {})

\* three searches of round 1 found nothing usable and the exchange ended
\* with the fixed answer, although a second round was allowed
C10_Witness ==
    /\ pc[1] = "end"
    /\ EmptyAfterRound1(1)
    /\ max_retrieval_rounds = MaxRoundsBound
    /\ Cardinality(CallsOf(1, "search")) = 3
    /\ fr[1].answer = NOT_FOUND_ANSWER

\* the exchange reached the synthesis step with an empty accumulated list:
\* round 1 retrieved nothing, or no round was allowed at all
EmptyEvidencePath(e) ==
    \/ EmptyAfterRound1(e)
    \/ /\ max_retrieval_rounds = 0
       /\ \E i \in EventsOf(e, "thinking") : events[e][i].text = "result"

\* C11: on the empty-evidence path the exchange ends with done, its sources
\* event carries an empty list, exactly one content event is emitted and it
\* carries the fixed not-found answer, and the question and that answer are
\* the last two messages of the session history.
C11_EmptyEvidenceCommitted ==
    \A e \in Exchanges :
        (pc[e] = "end" /\ EmptyEvidencePath(e)) =>
            LET messages == heap[fr[e].session].messages
                n == Len(messages)
            IN /\ EndedWith(e, "done")
               /\ Cardinality(EventsOf(e, "sources")) = 1
               /\ \A i \in EventsOf(e, "sources") : events[e][i].sources = << >>
               /\ Cardinality(EventsOf(e, "content")) = 1
               /\ \A i \in EventsOf(e, "content") :
                     events[e][i].text = NOT_FOUND_ANSWER
               /\ n >= 2
               /\ messages[n - 1] = ChatMessage("user", fr[e].question)
               /\ messages[n] = ChatMessage("assistant", NOT_FOUND_ANSWER)

\* with no retrieval round allowed, an exchange on a fresh session ended
\* and the session holds the question and the fixed answer
C11_Witness ==
    /\ pc[1] = "end"
    /\ max_retrieval_rounds = 0
    /\ CallsOf(1, "search") = {}
    /\ fr[1].requested = NoSession
    /\ heap[fr[1].session].messages =
          <<ChatMessage("user", "why"),
            ChatMessage("assistant", NOT_FOUND_ANSWER)>>

\* C12: when json.loads fails on the classification response, analyze does
\* not raise: the result has category general, no target sections and one
\* keyword, the first 50 characters of the question, whatever the question;
\* the intent step reports its result and retrieval goes on with that
\* keyword.
C12_ParseFailureFallback ==
    \A e \in Exchanges :
        fr[e].intent_response.kind = "not_json" =>
            LET question == fr[e].question
                keywords == fr[e].intent_result.keywords
                length == IF Len(question) < 50 THEN Len(question) ELSE 50
            IN /\ fr[e].intent_result.category = "general"
               /\ fr[e].intent_result.target_sections = << >>
               /\ Len(keywords) = 1
               /\ Len(keywords[1]) = length
               /\ keywords[1] = SubSeq(question, 1, length)
               /\ \E i \in EventsOf(e, "thinking") :
                     events[e][i].text = "result"
               /\ EventsOf(e, "error") /= {} => CallsOf(e, "evaluation") /= {}
               /\ (max_retrieval_rounds >= 1 /\ pc[e] = "end") =>
                     /\ CallsOf(e, "search") /= {}
                     /\ \A i \in CallsOf(e, "search") :
                           calls[e][i].round = 1 =>
                              calls[e][i].arg = SubSeq(question, 1, length)

\* a question of 62 characters whose classification was not JSON: the
\* search of round 1 looked for its first 50 characters
C12_Witness ==
    /\ pc[1] = "end"
    /\ fr[1].intent_response.kind = "not_json"
    /\ Len(fr[1].question) = 62
    /\ \E i \in CallsOf(1, "search") :
          calls[1][i].arg =
             "which optimizer and learning rate schedule do the "

\* C13: when json.loads fails on the evaluation response of a round, the
\* verdict is sufficient with no suggested keywords, so the loop exits in
\* that round: the round counter stays, one evaluation call was made per
\* round so far, and after that evaluation call only the synthesis call is
\* started.
C13_EvaluationFailureExits ==
    \A e \in Exchanges :
        fr[e].evaluation_response.kind = "not_json" =>
            LET round == fr[e].current_round
                evaluations == CallsOf(e, "evaluation")
            IN /\ fr[e].evaluation_result.is_sufficient
               /\ fr[e].evaluation_result.suggested_keywords = << >>
               /\ fr[e].is_sufficient
               /\ Cardinality(evaluations) = round
               /\ Cardinality(EventsOf(e, "evaluation")) = round
               /\ \A i \in InRound(e, "evaluation", round) :
                     events[e][i].text = "sufficient"
               /\ \A i \in evaluations, j \in 1..Len(calls[e]) :
                     (calls[e][i].round = round /\ j > i) =>
                        calls[e][j].capability = "synthesis"

\* two rounds were allowed, the evaluation response of round 1 was not
\* JSON, and the exchange answered after that one round
C13_Witness ==
    /\ pc[1] = "end"
    /\ max_retrieval_rounds = MaxRoundsBound
    /\ fr[1].evaluation_response.kind = "not_json"
    /\ fr[1].current_round = 1
    /\ CallsOf(1, "synthesis") /= {}
    /\ EndedWith(1, "done")

\* the kinds of text a classification or evaluation call returns
\* successfully
ReturnedKinds == {"not_json", "json_other", "object"}

\* C14: no structured output that a classification or evaluation call
\* returns successfully (text that is not JSON, JSON that is not an object,
\* an object with missing or wrongly typed fields) drives the exchange to
\* an error: while the last call to have ended is such a call, the exchange
\* has emitted no error event.
C14_MalformedOutputRecovered ==
    \A e \in Exchanges :
        LET outcomes == fr[e].outcomes
        IN (outcomes /= << >> /\ outcomes[Len(outcomes)] \in ReturnedKinds)
              => EventsOf(e, "error") = {}

\* C15: a classification response that is a JSON object whose category is
\* absent or names none of the seven categories gives category general, an
\* absent target_sections or keywords field gives an empty list, and an
\* evaluation response that is a JSON object without is_sufficient gives a
\* sufficient verdict; none of these raises: the intent step reports its
\* result, the round reports its verdict and no error event follows from
\* them.
C15_ObjectDefaults ==
    \A e \in Exchanges :
        LET intent == fr[e].intent_response
            verdict == fr[e].evaluation_response
            outcomes == fr[e].outcomes
        IN /\ (/\ intent.kind = "object"
               /\ intent.category_kind /= "invalid"
               /\ intent.keywords_kind /= "invalid") =>
                 /\ \E i \in EventsOf(e, "thinking") :
                       events[e][i].text = "result"
                 /\ Len(outcomes) = 2 => EventsOf(e, "error") = {}
                 /\ (\/ intent.category_kind = "missing"
                     \/ lower(intent.category) \notin IntentCategories) =>
                       fr[e].intent_result.category = "general"
                 /\ intent.keywords_kind = "missing" =>
                       fr[e].intent_result.keywords = << >>
                 /\ intent.sections_kind = "missing" =>
                       fr[e].intent_result.target_sections = << >>
           /\ (/\ verdict.kind = "object"
               /\ verdict.sufficient_kind = "missing"
               /\ verdict.keywords_kind /= "invalid") =>
                 /\ fr[e].evaluation_result.is_sufficient
                 /\ fr[e].is_sufficient
                 /\ InRound(e, "evaluation", fr[e].current_round) /= {}
                 /\ outcomes[Len(outcomes)] = "object" =>
                       EventsOf(e, "error") = {}

\* the classification object named the category "summary" and the
\* evaluation object of round 1 had no is_sufficient field: the intent is
\* general and the exchange answered after round 1 of the two allowed
C15_Witness ==
    /\ pc[1] = "end"
    /\ max_retrieval_rounds = MaxRoundsBound
    /\ fr[1].intent_response.kind = "object"
    /\ fr[1].intent_response.category = "summary"
    /\ fr[1].intent_result.category = "general"
    /\ fr[1].evaluation_response.kind = "object"
    /\ fr[1].evaluation_response.sufficient_kind = "missing"
    /\ fr[1].current_round = 1
    /\ EndedWith(1, "done")

\* C16: when a text-generation call (classification, evaluation, synthesis)
\* or a similarity search fails, the failed call is the last call the
\* exchange starts, the exchange has emitted exactly one error event, that
\* event is its last event, and the generator is at its end.
C16_FailureIsTerminal ==
    \A e \in Exchanges :
        LET outcomes == fr[e].outcomes
            failed == Len(outcomes)
        IN (/\ outcomes /= << >>
            /\ outcomes[failed] = "raise"
            /\ calls[e][failed].capability /= "titles") =>
              /\ Len(calls[e]) = failed
              /\ Cardinality(EventsOf(e, "error")) = 1
              /\ EndedWith(e, "error")
              /\ pc[e] \in {"y_error", "end"}

\* the second search of round 2 failed: seven calls were started before it
\* (titles, classification, three searches and the evaluation of round 1,
\* one search of round 2) and none after it
C16_Witness ==
    /\ pc[1] = "end"
    /\ Len(calls[1]) = 8
    /\ calls[1][8].capability = "search"
    /\ calls[1][8].round = 2
    /\ fr[1].outcomes[8] = "raise"
    /\ EndedWith(1, "error")

\* the request names a session that the store does not hold or that is
\* bound to another paper
InvalidRequest(requested, paper_id) ==
    /\ requested /= NoSession
    /\ requested \notin sessions \/ heap[requested].paper_id /= paper_id

\* C17: when the supplied session id names no stored session, or a session
\* bound to another document, the first step of the exchange emits an error
\* event and nothing else, starts no capability call and leaves the session
\* store as it is; the exchange then ends without a further event or call
\* and without touching the store.
C17_InvalidSessionRejected ==
    /\ [][\A e \in Exchanges :
             /\ (/\ pc[e] = "start" /\ pc'[e] /= "start"
                 /\ InvalidRequest(fr'[e].requested, fr'[e].paper_id)) =>
                   /\ pc'[e] = "y_error"
                   /\ Len(events'[e]) = 1
                   /\ events'[e][1].type = "error"
                   /\ calls'[e] = << >>
                   /\ UNCHANGED <<sessions, heap, next_id>>
             /\ (/\ pc[e] = "y_error" /\ pc'[e] /= "y_error"
                 /\ calls[e] = << >>) =>
                   /\ pc'[e] = "end"
                   /\ UNCHANGED <<sessions, heap, next_id, events, calls>>
         ]_vars
    /\ [](\A e \in Exchanges :
             (events[e] /= << >> /\ events[e][1].type = "error") =>
                (Len(events[e]) = 1 /\ calls[e] = << >>))

\* a request for paper p2 on the session bound to p1, which holds earlier
\* turns: the exchange ended with its only event, an error
C17_Witness ==
    /\ pc[1] = "end"
    /\ fr[1].requested = 1
    /\ fr[1].paper_id = "p2"
    /\ heap[1].paper_id = "p1"
    /\ Len(heap[1].messages) = HistoryLimit
    /\ Len(events[1]) = 1
    /\ events[1][1].type = "error"

CallsInRound(e, capability, r) ==
    Positions(calls[e], LAMBDA c : c.capability = capability /\ c.round = r)

\* the calls of the text-generation and similarity-search capabilities
ExternalCalls(e) ==
    Positions(calls[e], LAMBDA c : c.capability \in {"classification", "search",
                                                    "evaluation", "synthesis"})

\* C18: an exchange starts at most one classification call, at most three
\* searches and one evaluation call in each round 1..max_retrieval_rounds
\* (and none outside these rounds), and at most one synthesis call: at most
\* 1 + max_retrieval_rounds * (3 + 1) + 1 calls, however many keywords the
\* intent or a verdict proposes.
C18_CallsBounded ==
    \A e \in Exchanges :
        /\ Cardinality(CallsOf(e, "classification")) <= 1
        /\ Cardinality(CallsOf(e, "synthesis")) <= 1
        /\ \A i \in CallsOf(e, "search") \cup CallsOf(e, "evaluation") :
              calls[e][i].round \in 1..max_retrieval_rounds
        /\ \A r \in 1..max_retrieval_rounds :
              /\ Cardinality(CallsInRound(e, "search", r)) <= 3
              /\ Cardinality(CallsInRound(e, "evaluation", r)) <= 1
        /\ Cardinality(ExternalCalls(e)) <=
              1 + max_retrieval_rounds * (3 + 1) + 1

\* the intent and the verdict of round 1 proposed four keywords each: both
\* rounds made three searches and one evaluation, and the bound is met
C18_Witness ==
    /\ pc[1] = "end"
    /\ max_retrieval_rounds = MaxRoundsBound
    /\ Len(fr[1].intent_result.keywords) = 4
    /\ Len(fr[1].search_keywords) = 4
    /\ fr[1].current_round = MaxRoundsBound
    /\ Cardinality(ExternalCalls(1)) = 1 + MaxRoundsBound * (3 + 1) + 1

\* the generator is in the retrieval part of its current round: the verdict
\* it holds is the one of the round before
Retrieving(e) ==
    pc[e] \in {"y_retrieval_start", "a_search", "y_retrieval_count",
               "y_evaluation_none", "y_thinking_evaluate", "a_evaluation"}

\* C19: the searches of round 1 look, in order, for the first at most three
\* keywords of the intent; the searches of a later round look for the first
\* at most three suggested keywords of the verdict of the round before, or
\* for the question alone when that verdict suggests none; a round searches
\* nothing else, and all of these once its retrieval is over.
C19_KeywordSources ==
    \A e \in Exchanges :
        Retrieving(e) =>
            LET round == fr[e].current_round
                suggested == fr[e].evaluation_result.suggested_keywords
                source == IF round = 1 THEN fr[e].intent_result.keywords
                          ELSE IF suggested /= << >> THEN suggested
                               ELSE <<fr[e].question>>
                wanted == IF Len(source) < 3 THEN Len(source) ELSE 3
                searched == CallsInRound(e, "search", round)
            IN /\ Cardinality(searched) <= wanted
               /\ \A i \in searched :
                     calls[e][i].arg =
                        source[Cardinality({j \in searched : j <= i})]
               /\ pc[e] \notin {"y_retrieval_start", "a_search"} =>
                     Cardinality(searched) = wanted

\* the verdict of round 1 was insufficient and suggested no keyword: the
\* only search of round 2 looked for the question, not for a keyword of
\* the intent
C19_Witness ==
    /\ pc[1] = "y_retrieval_count"
    /\ fr[1].current_round = 2
    /\ fr[1].intent_result.keywords = Keywords4
    /\ fr[1].evaluation_result.suggested_keywords = << >>
    /\ Cardinality(CallsInRound(1, "search", 2)) = 1
    /\ \A i \in CallsInRound(1, "search", 2) : calls[1][i].arg = "why"

\* the generator leaves the loop: the synthesis step is next
LoopExited(e) == pc[e] \in {"a_synthesis", "y_content_fixed"}

\* C20: after the verdict of round r the next round starts if and only if
\* the verdict is insufficient and r < max_retrieval_rounds, and otherwise
\* the loop is left; it is also left, without a verdict, when the round
\* retrieved nothing.  With max_retrieval_rounds = 2, an insufficient round
\* 1 and a sufficient round 2 give exactly two evaluation events and two
\* evaluation calls.
C20_LoopExit ==
    /\ [][\A e \in Exchanges :
             LET round == fr[e].current_round
                 again == /\ pc'[e] = "y_retrieval_start"
                          /\ fr'[e].current_round = round + 1
                 exit == LoopExited(e)' /\ fr'[e].current_round = round
             IN /\ (pc[e] = "y_evaluation" /\ pc'[e] /= pc[e]) =>
                      /\ again <=> (/\ ~fr[e].evaluation_result.is_sufficient
                                    /\ round < max_retrieval_rounds)
                      /\ exit <=> (\/ fr[e].evaluation_result.is_sufficient
                                   \/ round = max_retrieval_rounds)
                /\ (pc[e] = "y_evaluation_none" /\ pc'[e] /= pc[e]) => exit
         ]_vars
    /\ [](\A e \in Exchanges :
             (/\ pc[e] = "end"
              /\ max_retrieval_rounds = 2
              /\ \E i \in InRound(e, "evaluation", 1) :
                    events[e][i].text = "insufficient"
              /\ \E i \in InRound(e, "evaluation", 2) :
                    events[e][i].text = "sufficient") =>
                /\ Cardinality(EventsOf(e, "evaluation")) = 2
                /\ Cardinality(CallsOf(e, "evaluation")) = 2
                /\ fr[e].current_round = 2)

\* two rounds allowed, round 1 judged insufficient and round 2 sufficient:
\* the exchange ended after two evaluation calls and two evaluation events
C20_Witness ==
    /\ pc[1] = "end"
    /\ max_retrieval_rounds = 2
    /\ EndedWith(1, "done")
    /\ Cardinality(CallsOf(1, "evaluation")) = 2
    /\ \E i \in InRound(1, "evaluation", 1) :
          events[1][i].text = "insufficient"
    /\ \E i \in InRound(1, "evaluation", 2) :
          events[1][i].text = "sufficient"

\* C21: the calls of an exchange follow INIT, INTENT, (RETRIEVE,
\* EVALUATE)*, SYNTHESIZE: at most one call is in flight; a search starts
\* only after the classification call has returned a result; the
\* evaluation call of a round starts only after all the searches of that
\* round (one for each of its first three keywords) have returned; the
\* synthesis call starts after every search and evaluation call, when the
\* loop test has failed or the round retrieved nothing.
C21_StateOrder ==
    \A e \in Exchanges :
        LET outcomes == fr[e].outcomes
            round == fr[e].current_round
            keywords == fr[e].search_keywords
            wanted == IF Len(keywords) < 3 THEN Len(keywords) ELSE 3
        IN /\ Len(outcomes) <= Len(calls[e])
           /\ Len(calls[e]) <= Len(outcomes) + 1
           /\ \A i \in CallsOf(e, "search") :
                 \E j \in CallsOf(e, "classification") :
                    j < i /\ outcomes[j] \in {"not_json", "object"}
           /\ \A i \in CallsInRound(e, "evaluation", round) :
                 /\ Cardinality(CallsInRound(e, "search", round)) = wanted
                 /\ \A j \in CallsInRound(e, "search", round) :
                       j < i /\ outcomes[j] = "returned"
           /\ \A i \in CallsOf(e, "evaluation"), j \in CallsOf(e, "search") :
                 calls[e][j].round <= calls[e][i].round => j < i
           /\ \A i \in CallsOf(e, "synthesis") :
                 /\ i = Len(calls[e])
                 /\ \/ fr[e].is_sufficient
                    \/ round = max_retrieval_rounds
                 /\ \A j \in 1..(i - 1) : outcomes[j] /= "raise"

\* the evaluation call of round 2 failed after both searches of that round
\* had returned: the error state was entered from the evaluation
C21_Witness ==
    /\ pc[1] = "end"
    /\ EndedWith(1, "error")
    /\ fr[1].current_round = 2
    /\ Cardinality(CallsInRound(1, "search", 2)) = 2
    /\ Cardinality(CallsInRound(1, "evaluation", 2)) = 1
    /\ calls[1][Len(calls[1])].capability = "evaluation"
    /\ fr[1].outcomes[Len(calls[1])] = "raise"

\* C22: once the consumer has stopped consuming, the exchange starts no
\* further call and emits no further event, and when that happened before
\* the commit (before the done event) the histories are those the exchange
\* started with and stay so.
C22_ClosedDoesNothing ==
    /\ [][\A e \in Exchanges :
             pc[e] = "closed" =>
                /\ pc'[e] = "closed"
                /\ calls'[e] = calls[e]
                /\ events'[e] = events[e]
                /\ heap' = heap
         ]_vars
    /\ [](\A e \in Exchanges :
             (pc[e] = "closed" /\ EventsOf(e, "done") = {}) =>
                Histories = fr[e].histories_at_start)

\* the consumer went away at the sources event, after the whole answer had
\* been streamed: the turn is not in the history
C22_Witness ==
    /\ pc[1] = "closed"
    /\ LastEvent(1).type = "sources"
    /\ taken[1] = Len(events[1]) - 1
    /\ EventsOf(1, "content") /= {}
    /\ fr[1].requested = 1
    /\ Histories = fr[1].histories_at_start

\* the events yielded and not yet taken by the consumer
Pending(e) == Len(events[e]) - taken[e]

\* C23: at most one event is produced and not yet taken; while one is
\* pending the generator is parked at its yield (or closed), so it has not
\* started the next call nor asked the stream for the next increment.
C23_BoundedHandOff ==
    \A e \in Exchanges :
        /\ Pending(e) \in {0, 1}
        /\ Pending(e) = 1 => pc[e] \in YieldStates \cup {"closed"}
        /\ pc[e] \in AwaitStates \cup {"end"} => Pending(e) = 0
        /\ pc[e] \in YieldStates => Pending(e) = 1

\* the second increment of the answer waits to be taken; the first one has
\* been taken and the stream has not been asked for a third
C23_Witness ==
    /\ pc[1] = "y_content"
    /\ Cardinality(EventsOf(1, "content")) = 2
    /\ LastEvent(1).type = "content"
    /\ Pending(1) = 1
    /\ taken[1] = Len(events[1]) - 1

\* "none", the None of get_session and get_history
NotFound(session_id) ==
    /\ get_session(session_id) = NoSession
    /\ get_history(session_id) = <<"none">>

\* C24: a session enters the store only with an id no session has had
\* before, an empty history and the paper it was created for; deleting a
\* session is possible in every state, also for an id that is absent or was
\* deleted before, and then changes nothing; a deleted session is reported
\* not-found by get_session and get_history, and stays so, because no later
\* creation returns its id.
C24_SessionLifecycle ==
    /\ [][\A id \in SessionIds :
             /\ (id \notin sessions /\ id \in sessions') =>
                   /\ id = next_id
                   /\ next_id' > id
                   /\ heap'[id].messages = << >>
                   /\ heap'[id].paper_id \in Papers
                   /\ get_session(id)' = id
                   /\ get_history(id)' = << >>
             /\ (id \in sessions /\ id \notin sessions') => NotFound(id)'
             /\ (id < next_id /\ id \notin sessions) => NotFound(id)'
         ]_vars
    /\ [](\A id \in SessionIds :
             /\ ENABLED clear_session(id)
             /\ id \notin sessions => NotFound(id)
             /\ \A s \in sessions : s < next_id)

\* session 1 was deleted and a session was created afterwards: it got
\* another id and an empty history, and session 1 is still not found
C24_Witness ==
    /\ sessions = {2}
    /\ next_id = 3
    /\ NotFound(1)
    /\ heap[2].messages = << >>
    /\ heap[1].messages /= << >>
    /\ get_history(2) = << >>

\* C25: in every step, under every interleaving, the paper and the history
\* of a session B change only when B itself is created or when the step is
\* a step of an exchange on B; a step removes at most one session from the
\* store and changes no session object then.
C25_SessionsIndependent ==
    [][/\ \A B \in SessionIds :
             heap'[B] /= heap[B] =>
                \/ B \notin sessions /\ B \in sessions' /\ B = next_id
                \/ \E e \in Exchanges :
                      pc'[e] /= pc[e] /\ fr'[e].session = B
       /\ sessions' /= sessions =>
             \/ /\ sessions' = sessions \cup {next_id}
                /\ \A B \in sessions : heap'[B] = heap[B]
             \/ /\ \E A \in sessions : sessions' = sessions \ {A}
                /\ heap' = heap
      ]_vars

\* exchange 1 committed its turn to session 1 and exchange 2 committed its
\* turn to the session it created: each history holds its own turn only
C25_Witness ==
    /\ pc[1] = "end" /\ pc[2] = "end"
    /\ fr[1].session = 1 /\ fr[2].session = 2
    /\ EndedWith(1, "done") /\ EndedWith(2, "done")
    /\ Len(heap[2].messages) = 2
    /\ Len(heap[1].messages) = HistoryLimit
    /\ heap[1].messages[HistoryLimit - 2].content = "a" \o Num(PriorTurns)
    /\ heap[1].messages[HistoryLimit - 1].content = "why"

\* the user and assistant message at positions i, i+1 are a turn stored
\* before the exchanges started
EarlierTurn(user, assistant) ==
    /\ SubSeq(user.content, 1, 1) = "q"
    /\ SubSeq(assistant.content, 1, 1) = "a"
    /\ Len(user.content) = 3
    /\ SubSeq(user.content, 2, 3) = SubSeq(assistant.content, 2, 3)

\* C26: under every interleaving of two exchanges, also on one session,
\* every history is a sequence of whole turns: it has an even number of
\* messages, each user message is immediately followed by an assistant
\* message, and that pair is either a turn stored earlier or the question
\* and the answer of one exchange that has committed to this session; no
\* state shows a history between the two appends or before the trim.
C26_CommitAtomic ==
    \A s \in SessionIds :
        LET messages == heap[s].messages
        IN /\ Len(messages) % 2 = 0
           /\ Len(messages) <= 20
           /\ \A i \in 1..Len(messages) :
                 IF i % 2 = 1
                 THEN /\ messages[i].role = "user"
                      /\ messages[i + 1].role = "assistant"
                      /\ \/ EarlierTurn(messages[i], messages[i + 1])
                         \/ \E e \in Exchanges :
                               /\ fr[e].session = s
                               /\ EventsOf(e, "done") /= {}
                               /\ messages[i].content = fr[e].question
                               /\ messages[i + 1].content = fr[e].answer
                 ELSE messages[i].role = "assistant"

\* both exchanges ran on session 1 and committed, one the fixed answer and
\* one a generated answer; the history ends with their two whole turns
C26_Witness ==
    /\ pc[1] = "end" /\ pc[2] = "end"
    /\ fr[1].session = 1 /\ fr[2].session = 1
    /\ EndedWith(1, "done") /\ EndedWith(2, "done")
    /\ fr[1].answer = NOT_FOUND_ANSWER
    /\ fr[2].answer = "a"
    /\ heap[1].messages[HistoryLimit - 2].content = "a"
    /\ heap[1].messages[HistoryLimit].content = NOT_FOUND_ANSWER

\* C27: the sources event lists the first min(5, n) fragments of the
\* accumulated list of n fragments, in the order of the list, one entry per
\* fragment with that fragment's chunk id, section title and score.
C27_SourcesPayload ==
    \A e \in Exchanges :
        \A i \in EventsOf(e, "sources") :
            LET listed == events[e][i].sources
                accumulated == fr[e].all_results
                n == Len(accumulated)
            IN /\ Len(listed) = IF n < 5 THEN n ELSE 5
               /\ \A k \in 1..Len(listed) :
                     /\ listed[k].chunk_id = accumulated[k].chunk_id
                     /\ listed[k].section = accumulated[k].section
                     /\ listed[k].score = accumulated[k].score

\* seven fragments were accumulated; the payload lists the first five, the
\* first of which has a lower score than the second and than the sixth,
\* which is not listed
C27_Witness ==
    /\ pc[1] = "end"
    /\ Len(fr[1].all_results) = 7
    /\ \E i \in EventsOf(1, "sources") :
          /\ Len(events[1][i].sources) = 5
          /\ events[1][i].sources[1].score < events[1][i].sources[2].score
          /\ events[1][i].sources[1].score < fr[1].all_results[6].score
          /\ events[1][i].sources[1].section = "Section d1"

\* C28: the evaluator's cut to its character budget touches its prompt only.
\* While an evaluation runs and after it, the accumulated list is the list
\* the round ended with; the evaluator read the first 4000 characters of
\* the rendering of that list, which hold every leading fragment that fits
\* whole; synthesis renders the whole list and the sources event is drawn
\* from the whole list.
C28_BudgetCutsPromptOnly ==
    \A e \in Exchanges :
        LET results ==
                IF fr[e].round_end = << >> THEN << >>
                ELSE fr[e].round_end[Len(fr[e].round_end)]
            full == format_context(results)
        IN /\ pc[e] \in {"a_evaluation", "y_evaluation"} =>
                /\ fr[e].all_results = results
                /\ IsPrefix(fr[e].retrieved_content, full)
                /\ Len(fr[e].retrieved_content) =
                       (IF Len(full) < 4000 THEN Len(full) ELSE 4000)
                /\ \A k \in 1..Len(results) :
                       LET leading == format_context(Take(results, k))
                       IN Len(leading) <= 4000 =>
                              IsPrefix(leading, fr[e].retrieved_content)
           /\ pc[e] = "a_synthesis" =>
                /\ fr[e].all_results = results
                /\ fr[e].context = full
           /\ \A i \in EventsOf(e, "sources") :
                /\ fr[e].all_results = results
                /\ Len(events[e][i].sources) =
                       (IF Len(results) < 5 THEN Len(results) ELSE 5)

\* seven long fragments were accumulated: the evaluator read 4000
\* characters, which end inside the third fragment, synthesis was given a
\* longer rendering and the sources event lists the fourth and the fifth
\* fragment
C28_Witness ==
    /\ pc[1] = "end"
    /\ Len(fr[1].all_results) = 7
    /\ Len(fr[1].retrieved_content) = 4000
    /\ Len(fr[1].context) > 10000
    /\ IsPrefix(context_part(1, F1), fr[1].retrieved_content)
    /\ ~IsPrefix(format_context(<<F1, F2, F3>>), fr[1].retrieved_content)
    /\ \E i \in EventsOf(1, "sources") :
          /\ events[1][i].sources[4].chunk_id = "d4"
          /\ events[1][i].sources[5].chunk_id = "d5"

\* C29: every exchange terminates. When every call returns or fails, every
\* stream is finite and the consumer keeps consuming, an exchange that was
\* started emits a terminal event, whatever the classifier and the
\* evaluator answer.
C29_Terminates ==
    \A e \in Exchanges :
        (pc[e] = "start") ~> (TerminalPositions(e) /= {})

\* neither the classifier's nor the evaluator's output could be parsed, and
\* the exchange ended with done
C29_Witness ==
    /\ pc[1] = "end"
    /\ fr[1].intent_response.kind = "not_json"
    /\ fr[1].evaluation_response.kind = "not_json"
    /\ max_retrieval_rounds = MaxRoundsBound
    /\ EndedWith(1, "done")

\* C30: the list search_multi_keywords returns has no two results with the
\* same chunk id, is ordered by non-increasing score and holds every chunk
\* id some keyword's search returned; every keyword was searched, in the
\* order given, however many there are.
C30_MultiKeywordSearch ==
    mk.pc = "returned" =>
        /\ \A i, j \in 1..Len(mk.value) :
               mk.value[i].chunk_id = mk.value[j].chunk_id => i = j
        /\ \A i \in 1..(Len(mk.value) - 1) :
               mk.value[i].score >= mk.value[i + 1].score
        /\ {mk.value[i].chunk_id : i \in 1..Len(mk.value)} =
               UNION {{mk.searched[i].results[j].chunk_id :
                          j \in 1..Len(mk.searched[i].results)} :
                      i \in 1..Len(mk.searched)} \ {""}
        /\ \A i \in 1..Len(mk.value) :
               \E j \in 1..Len(mk.searched) :
                   \E l \in 1..Len(mk.searched[j].results) :
                       mk.value[i] = mk.searched[j].results[l]
        /\ [i \in 1..Len(mk.searched) |-> mk.searched[i].query] = mk.keywords

\* four keywords were searched; only the fourth search found chunk c3, the
\* first and the second both found c1 and c2; the list holds the three
\* chunks by score
C30_Witness ==
    /\ mk.pc = "returned"
    /\ Len(mk.keywords) = 4
    /\ mk.searched[1].results = <<A1, B2>>
    /\ mk.searched[2].results = <<B1, A2, Z1>>
    /\ mk.searched[3].results = << >>
    /\ mk.searched[4].results = <<D1>>
    /\ mk.value = <<A1, D1, B2>>

\* C31: the loop is left for want of evidence in round 1 only. A list that
\* was non-empty at the end of a round is non-empty at the end of the next;
\* a round r > 1 is entered only after the evaluation call of round r - 1
\* returned and its verdict was insufficient, so the verdict whose keywords
\* round r reads exists and reading it never fails.
C31_EmptyExitOnlyRound1 ==
    \A e \in Exchanges :
        /\ \A i \in EventsOf(e, "evaluation") :
               events[e][i].text = "none" => events[e][i].round = 1
        /\ \A k \in 2..Len(fr[e].round_end) :
               fr[e].round_end[k - 1] /= << >> => fr[e].round_end[k] /= << >>
        /\ \A r \in 2..fr[e].current_round :
               /\ \E k \in 1..Len(fr[e].outcomes) :
                      /\ calls[e][k].capability = "evaluation"
                      /\ calls[e][k].round = r - 1
                      /\ fr[e].outcomes[k] = "object"
               /\ \E i \in 1..Len(events[e]) :
                      /\ events[e][i].type = "evaluation"
                      /\ events[e][i].round = r - 1
                      /\ events[e][i].text = "insufficient"
               /\ fr[e].evaluation_result.bound
        /\ \A i \in 1..Len(events[e]) : events[e][i].type /= "error"

\* round 1 found fragments and was judged insufficient; the searches of
\* round 2 found nothing, the list stayed as it was and was evaluated again
C31_Witness ==
    /\ pc[1] = "end"
    /\ Len(fr[1].round_end) = 2
    /\ fr[1].round_end[1] = <<F1, F2, F3>>
    /\ fr[1].round_end[2] = <<F1, F2, F3>>
    /\ \E k \in 1..Len(calls[1]) :
          calls[1][k].capability = "evaluation" /\ calls[1][k].round = 2

\* the results the index returned to the searches of round r
ReturnedInRound(e, r) ==
    UNION {{Index[calls[e][k].arg][i] : i \in 1..Len(Index[calls[e][k].arg])} :
           k \in CallsInRound(e, "search", r)}

\* C32: a fragment without a chunk id is never in the accumulated list. A
\* round whose searches returned only such fragments ends with the list the
\* round before ended with; in round 1 the exchange then leaves the loop
\* without an evaluation call and gives the fixed answer.
C32_NoIdNeverAccumulated ==
    \A e \in Exchanges :
        /\ \A r \in 1..Len(fr[e].round_end) :
               /\ \A i \in 1..Len(fr[e].round_end[r]) :
                      fr[e].round_end[r][i].chunk_id /= ""
               /\ (\A result \in ReturnedInRound(e, r) : result.chunk_id = "")
                      => fr[e].round_end[r] =
                             (IF r = 1 THEN << >> ELSE fr[e].round_end[r - 1])
        /\ pc[e] /= "a_search" =>
               \A i \in 1..Len(fr[e].all_results) :
                   fr[e].all_results[i].chunk_id /= ""
        /\ \A i \in EventsOf(e, "sources") :
               \A k \in 1..Len(events[e][i].sources) :
                   events[e][i].sources[k].chunk_id /= ""
        /\ (/\ Len(fr[e].round_end) >= 1
            /\ \A result \in ReturnedInRound(e, 1) : result.chunk_id = "")
               => /\ CallsOf(e, "evaluation") = {}
                  /\ fr[e].current_round = 1
                  /\ pc[e] \notin {"y_retrieval_count", "y_evaluation_none"}
                        => fr[e].answer = NOT_FOUND_ANSWER

\* round 1 kept c1 of the two fragments its searches returned besides the
\* id-less one; the two searches of round 2 returned three fragments, none
\* with an id, and the list stayed as it was
C32_Witness ==
    /\ pc[1] = "end"
    /\ Len(fr[1].round_end) = 2
    /\ fr[1].round_end[1] = <<A1>>
    /\ fr[1].round_end[2] = <<A1>>
    /\ ReturnedInRound(1, 1) = {A1, Z1}
    /\ ReturnedInRound(1, 2) = {Z1, Z2}

\* C33: when the session of an exchange is deleted while the exchange runs,
\* the commit of the exchange does not put it back: once the exchange has
\* emitted done, get_session and get_history of that id report not found,
\* and every message of a session in the store is of an earlier turn or of
\* another exchange on that session.
C33_DeletedStaysDeleted ==
    /\ [][\A e \in Exchanges :
             (/\ pc[e] = "y_sources" /\ pc'[e] = "y_done"
              /\ fr[e].session \notin sessions) =>
                 /\ fr[e].session \notin sessions'
                 /\ get_session(fr[e].session)' = NoSession
                 /\ get_history(fr[e].session)' = <<"none">>
                 /\ \A s \in sessions' : heap'[s] = heap[s]
         ]_vars
    /\ [](\A e \in Exchanges :
            (EventsOf(e, "done") /= {} /\ fr[e].session \notin sessions) =>
                /\ get_session(fr[e].session) = NoSession
                /\ get_history(fr[e].session) = <<"none">>
                /\ \A s \in sessions :
                       \A i \in 1..Len(heap[s].messages) :
                           \/ i % 2 = 0
                           \/ EarlierTurn(heap[s].messages[i],
                                          heap[s].messages[i + 1])
                           \/ \E other \in Exchanges \ {e} :
                                  /\ fr[other].session = s
                                  /\ EventsOf(other, "done") /= {}
                                  /\ heap[s].messages[i].content =
                                         fr[other].question)

\* the exchange started on session 1, which held ten turns; the session was
\* deleted before the commit and session 2 was created; the exchange ended
\* with done, its turn went to the object of session 1, which the store no
\* longer holds, and session 2 is empty
C33_Witness ==
    /\ pc[1] = "end"
    /\ EndedWith(1, "done")
    /\ fr[1].requested = 1
    /\ sessions = {2}
    /\ Len(heap[1].messages) = HistoryLimit
    /\ heap[1].messages[HistoryLimit] = ChatMessage("assistant", "a")
    /\ heap[2].messages = << >>

\* C34: the history of every session object has even length and alternates
\* user, assistant, beginning with a user message. A step that changes a
\* history appends one user and one assistant message and, when that makes
\* more than 20, drops the oldest whole turn: the messages kept are the old
\* ones from the third on.
C34_WholeTurns ==
    /\ [](\A s \in SessionIds :
            /\ Len(heap[s].messages) % 2 = 0
            /\ \A i \in 1..Len(heap[s].messages) :
                   heap[s].messages[i].role =
                       (IF i % 2 = 1 THEN "user" ELSE "assistant"))
    /\ [][\A s \in SessionIds :
             LET old == heap[s].messages
                 new == heap'[s].messages
                 kept == Len(new) - 2
             IN (new /= old /\ new /= << >>) =>
                    /\ kept >= 0
                    /\ new[kept + 1].role = "user"
                    /\ new[kept + 2].role = "assistant"
                    /\ \/ Len(old) <= 18 /\ SubSeq(new, 1, kept) = old
                       \/ /\ Len(old) = 20
                          /\ SubSeq(new, 1, kept) = SubSeq(old, 3, 20)
         ]_vars

\* a session that held ten turns got an eleventh: the first turn is gone as
\* a whole and the history begins with the question of the second
C34_Witness ==
    /\ pc[1] = "end"
    /\ EndedWith(1, "done")
    /\ Len(heap[1].messages) = 20
    /\ heap[1].messages[1] = ChatMessage("user", "q02")
    /\ heap[1].messages[19] = ChatMessage("user", "why")
    /\ heap[1].messages[20].role = "assistant"

\* the metadata lookup of exchange e has failed
TitlesFailed(e) ==
    /\ Len(fr[e].outcomes) >= 1
    /\ calls[e][1].capability = "titles"
    /\ fr[e].outcomes[1] = "raise"

\* C35: a failed lookup of the section titles does not end the exchange.
\* The step that takes the failure emits nothing and starts the
\* classification call; the exchange goes on with no section titles, and an
\* error event, if one comes, comes when a later call has ended.
C35_TitlesFailureNotFatal ==
    /\ [][\A e \in Exchanges :
             pc[e] = "a_titles" =>
                 \/ pc'[e] = "a_titles"
                 \/ /\ pc'[e] = "a_intent"
                    /\ events'[e] = events[e]
                    /\ calls'[e] = Append(calls[e],
                                          Call("classification", 0,
                                               fr[e].question))
         ]_vars
    /\ [](\A e \in Exchanges :
            TitlesFailed(e) =>
                /\ fr[e].section_titles = << >>
                /\ Len(calls[e]) >= 2
                /\ calls[e][2].capability = "classification"
                /\ EventsOf(e, "error") /= {} =>
                       /\ Len(fr[e].outcomes) = Len(calls[e])
                       /\ fr[e].outcomes[Len(calls[e])] /= "returned")

\* the lookup failed, the classification was called all the same and the
\* exchange ended with done after a search, an evaluation and a synthesis
C35_Witness ==
    /\ pc[1] = "end"
    /\ TitlesFailed(1)
    /\ EndedWith(1, "done")
    /\ CallsOf(1, "search") /= {}
    /\ CallsOf(1, "synthesis") /= {}

\* the exchanges that were started without a session id
StartedWithoutSession ==
    {e \in Exchanges :
        pc[e] \notin {"off", "start"} /\ fr[e].requested = NoSession}

\* C36: an exchange started without a session id has created one session,
\* bound to the paper it asks about, by the time it emits its first event
\* and before it calls anything: the store holds one session more for
\* each such exchange. The history of that session is empty until the
\* exchange emits done, is still empty and still in the store when the
\* exchange ended with error, and is exactly the question and the answer
\* once the exchange emitted done.
C36_OneNewSession ==
    /\ Cardinality(sessions) = 1 + Cardinality(StartedWithoutSession)
    /\ next_id = 2 + Cardinality(StartedWithoutSession)
    /\ \A e \in Exchanges : pc[e] = "start" => calls[e] = << >>
    /\ \A e \in StartedWithoutSession :
          LET id == fr[e].session_id
          IN /\ id \in sessions
             /\ id /= 1
             /\ fr[e].session = id
             /\ heap[id].paper_id = fr[e].paper_id
             /\ \A i \in 1..Len(events[e]) :
                    events[e][i].text /= "invalid"
             /\ heap[id].messages =
                    (IF EventsOf(e, "done") = {} THEN << >>
                     ELSE <<ChatMessage("user", fr[e].question),
                            ChatMessage("assistant", fr[e].answer)>>)

\* asked about paper p2 without a session id, the exchange created session
\* 2 for p2, made four calls and ended with error: session 2 is in the
\* store with an empty history
C36_Witness ==
    /\ pc[1] = "end"
    /\ fr[1].requested = NoSession
    /\ fr[1].paper_id = "p2"
    /\ EndedWith(1, "error")
    /\ Len(calls[1]) = 4
    /\ sessions = {1, 2}
    /\ heap[2] = ChatHistory("p2", << >>)

\* the rounds of exchange e that were started and whose searches have all
\* returned
SearchedRounds(e) ==
    {r \in 1..fr[e].current_round :
        /\ InRound(e, "retrieval", r) /= {}
        /\ \A k \in CallsInRound(e, "search", r) :
               k <= Len(fr[e].outcomes) /\ fr[e].outcomes[k] = "returned"}

\* the evaluation calls of exchange e that ended without a verdict
FailedEvaluations(e) ==
    {k \in CallsOf(e, "evaluation") :
        /\ k = Len(calls[e])
        /\ k = Len(fr[e].outcomes)
        /\ evaluate(fr[e].evaluation_response).raised}

\* C37 as stated: when an exchange has ended, every round that was started
\* and whose searches all succeeded has two retrieval events and one
\* evaluation event; the evaluation events are as many as these rounds and
\* the evaluation calls are one less on the empty-evidence path and as many
\* otherwise.
C37_AsStated ==
    \A e \in Exchanges :
        pc[e] = "end" =>
            /\ \A r \in SearchedRounds(e) :
                   /\ Cardinality(InRound(e, "retrieval", r)) = 2
                   /\ Cardinality(InRound(e, "evaluation", r)) = 1
            /\ Cardinality(EventsOf(e, "evaluation")) =
                   Cardinality(SearchedRounds(e))
            /\ Cardinality(CallsOf(e, "evaluation")) =
                   Cardinality(SearchedRounds(e))
                       - (IF EmptyAfterRound1(e) THEN 1 ELSE 0)

\* C37, amended: when an exchange has ended, every round that was started
\* and whose searches all succeeded has two retrieval events, and one
\* evaluation event unless its evaluation call failed, in which case it has
\* none and is the last round. The evaluation events are as many as these
\* rounds less the failed evaluation call, if any; the evaluation calls are
\* one less than these rounds on the empty-evidence path and as many
\* otherwise.
C37_EventsPerRound ==
    \A e \in Exchanges :
        pc[e] = "end" =>
            /\ \A r \in SearchedRounds(e) :
                   LET failed == {k \in FailedEvaluations(e) :
                                     calls[e][k].round = r}
                   IN /\ Cardinality(InRound(e, "retrieval", r)) = 2
                      /\ Cardinality(InRound(e, "evaluation", r)) =
                             (IF failed = {} THEN 1 ELSE 0)
                      /\ failed /= {} =>
                             (r = fr[e].current_round /\ EndedWith(e, "error"))
            /\ Cardinality(FailedEvaluations(e)) <= 1
            /\ Cardinality(EventsOf(e, "evaluation")) =
                   Cardinality(SearchedRounds(e))
                       - Cardinality(FailedEvaluations(e))
            /\ Cardinality(CallsOf(e, "evaluation")) =
                   Cardinality(SearchedRounds(e))
                       - (IF EmptyAfterRound1(e) THEN 1 ELSE 0)

\* the searches of two rounds succeeded; the evaluation call of round 2
\* failed: four retrieval events, two evaluation calls, one evaluation event
C37_Witness ==
    /\ pc[1] = "end"
    /\ SearchedRounds(1) = {1, 2}
    /\ Cardinality(EventsOf(1, "retrieval")) = 4
    /\ Cardinality(CallsOf(1, "evaluation")) = 2
    /\ Cardinality(EventsOf(1, "evaluation")) = 1
    /\ EndedWith(1, "error")

\* C38: the stream of an exchange that has ended contains a sources event
\* if and only if it ends with done; a stream with an error event holds no
\* sources event; a stream with a done event holds exactly one sources
\* event, before the done event; and the sources event is emitted before
\* the commit: the step that emits it leaves every session alone, and a
\* step of the exchange that changes the messages of a session finds it in
\* the stream.
C38_SourcesIffDone ==
    /\ [](\A e \in Exchanges :
             /\ Cardinality(EventsOf(e, "sources")) <= 1
             /\ EventsOf(e, "error") /= {} => EventsOf(e, "sources") = {}
             /\ EventsOf(e, "done") /= {} =>
                    /\ Cardinality(EventsOf(e, "sources")) = 1
                    /\ \A i \in EventsOf(e, "sources") :
                           \A j \in EventsOf(e, "done") : i < j
             /\ pc[e] = "end" =>
                    (EventsOf(e, "sources") /= {} <=> EndedWith(e, "done")))
    /\ [][\A e \in Exchanges :
             /\ (Len(events'[e]) > Len(events[e])
                    /\ \E i \in (Len(events[e]) + 1)..Len(events'[e]) :
                           events'[e][i].type = "sources")
                   => (heap' = heap /\ pc'[e] = "y_sources")
             /\ (pc'[e] /= pc[e]
                    /\ \E s \in SessionIds :
                           heap'[s].messages /= heap[s].messages)
                   => (EventsOf(e, "sources") /= {} /\ pc[e] = "y_sources")
         ]_vars

\* an exchange ended with done after an answer streamed in two increments,
\* having listed its sources once, after the increments and before done
C38_Witness ==
    /\ pc[1] = "end"
    /\ EndedWith(1, "done")
    /\ Cardinality(EventsOf(1, "content")) = 2
    /\ EventsOf(1, "sources") = {Len(events[1]) - 1}
    /\ Histories /= fr[1].histories_at_start

\* the place of the section with this title in a list of sections
PlaceOf(title, sections) ==
    CHOOSE i \in 1..Len(sections) : sections[i].title = title

\* the places of the references and bibliography sections of the paper
StopPlaces ==
    {i \in 1..Len(tp.paper.sections) :
        should_stop_at_section(tp.paper.sections[i].title)}

\* translate_paper has filtered the sections of a paper that has some
BySection ==
    /\ tp.pc \in {"gather", "returned"}
    /\ tp.translate_by_section
    /\ tp.paper.sections /= << >>

\* the sections have been filtered and no task has started yet
Filtered == BySection /\ tp.peak = 0

\* C39: in a translation by section, at most 10 section translations are in
\* flight at any time; the returned segments follow the original order of
\* the filtered sections, whatever order the translations completed in, and
\* every section that was translated is among them; a section whose
\* translation failed contributes no segment and the status is COMPLETED
\* all the same; and the filtered sections hold no section located at or
\* after the first references or bibliography section, while their number
\* plus skipped_count is the number of sections of the paper.
C39_TranslateBySection ==
    /\ Cardinality(InFlight) <= MAX_CONCURRENT_TRANSLATIONS
    /\ Filtered =>
          LET sections == tp.paper.sections
              filtered == tp.sections_to_translate
          IN /\ Len(filtered) + tp.skipped_count = Len(sections)
             /\ \A i \in 1..Len(filtered) :
                    /\ \E j \in 1..Len(sections) : sections[j] = filtered[i]
                    /\ \A stop \in StopPlaces :
                           PlaceOf(filtered[i].title, sections) < stop
                    /\ \A j \in 1..(i - 1) :
                           PlaceOf(filtered[j].title, sections)
                               < PlaceOf(filtered[i].title, sections)
    /\ BySection =>
          LET filtered == tp.sections_to_translate
              segments == tp.result.segments
          IN tp.pc = "returned" =>
                /\ tp.result.status = "completed"
                /\ \A k \in 1..Len(segments) :
                       /\ \E i \in 1..Len(filtered) :
                              /\ filtered[i].title = segments[k].section_title
                              /\ i \notin tp.failed
                              /\ contains(segments[k].original,
                                          filtered[i].content)
                       /\ \A l \in (k + 1)..Len(segments) :
                              PlaceOf(segments[k].section_title, filtered)
                                 <= PlaceOf(segments[l].section_title, filtered)
                /\ \A i \in 1..Len(filtered) :
                       i \notin tp.failed <=>
                          \E k \in 1..Len(segments) :
                             segments[k].section_title = filtered[i].title

\* the long paper was translated with ten sections in flight at a time, a
\* later section was done before an earlier one, the second section failed,
\* and the four sections from the acknowledgments on were left out
C39_Witness ==
    /\ tp.pc = "returned"
    /\ tp.paper = LongPaper
    /\ tp.translate_by_section
    /\ tp.peak = MAX_CONCURRENT_TRANSLATIONS
    /\ tp.overtaken
    /\ tp.failed = {2}
    /\ Len(tp.result.segments) = MaxSections - 1
    /\ tp.result.status = "completed"
    /\ tp.skipped_count = 4

LastStatus == poll.statuses[Len(poll.statuses)]

\* C40, as stated: wait_for_completion leaves its loop only by returning the
\* downloaded result after a status of completed with a result URL, by
\* raising after a status of failed or of completed without a result URL,
\* or by raising a timeout once the elapsed time exceeds the timeout.
C40_AsStated ==
    /\ poll.pc = "returned" =>
          /\ poll.statuses /= << >>
          /\ LastStatus = "completed"
          /\ ~falsy(poll.status_info.result_url)
          /\ poll.value = "result_content"
    /\ poll.pc = "raised" =>
          \/ poll.statuses /= << >> /\ LastStatus = "failed"
                /\ poll.exception = "task failed"
          \/ poll.statuses /= << >> /\ LastStatus = "completed"
                /\ falsy(poll.status_info.result_url)
                /\ poll.exception = "no result URL"
          \/ poll.exception = "TimeoutError" /\ poll.elapsed > poll.timeout

\* C40: wait_for_completion leaves its loop only by returning the
\* downloaded result after a status of completed with a result URL, by
\* raising after a status of failed or of completed without a result URL,
\* by raising a timeout once the elapsed time exceeds the timeout, by
\* raising the failure of a status request, or by raising the failure of
\* the download after a status of completed with a result URL; after any
\* other status, known or unknown, it sleeps and polls again unless the
\* timeout has passed; and it never returns a result when the last status
\* it saw was not completed.
C40_LoopExits ==
    /\ [](/\ poll.pc = "returned" =>
                /\ poll.statuses /= << >>
                /\ LastStatus = "completed"
                /\ ~falsy(poll.status_info.result_url)
                /\ poll.value = "result_content"
          /\ poll.pc /= "returned" => poll.value = None
          /\ poll.pc = "raised" =>
                \/ poll.statuses /= << >> /\ LastStatus = "failed"
                      /\ poll.exception = "task failed"
                \/ poll.statuses /= << >> /\ LastStatus = "completed"
                      /\ falsy(poll.status_info.result_url)
                      /\ poll.exception = "no result URL"
                \/ poll.exception = "TimeoutError"
                      /\ poll.elapsed > poll.timeout
                \/ poll.exception = "check_status"
                \/ poll.statuses /= << >> /\ LastStatus = "completed"
                      /\ ~falsy(poll.status_info.result_url)
                      /\ poll.exception = "download_result"
          /\ \A k \in 1..(Len(poll.statuses) - 1) :
                poll.statuses[k] \notin {"completed", "failed"})
    /\ [][/\ (Len(poll'.statuses) > Len(poll.statuses)
                /\ poll'.statuses[Len(poll'.statuses)]
                       \notin {"completed", "failed"})
               => poll'.pc = "a_sleep"
          /\ poll.pc = "a_sleep" => poll'.pc = "loop"
          /\ (poll.pc = "loop" /\ poll.now <= poll.timeout)
               => poll'.pc = "a_check_status"
          /\ (poll.pc = "loop" /\ poll.now > poll.timeout)
               => poll'.pc = "raised"
         ]_vars

\* after a status that is none of the known ones and two more polls the
\* task was completed, at the very moment of the timeout, and its result
\* was downloaded and returned
C40_Witness ==
    /\ poll.pc = "returned"
    /\ Len(poll.statuses) = 3
    /\ poll.statuses[1] = "converting"
    /\ poll.statuses[2] = None
    /\ poll.elapsed = poll.timeout
    /\ poll.now > poll.timeout

====
